---- MODULE Spec2Model ----
(***************************************************************************)
(* The patch-application engine of src/tools/utils.py: the dispatcher      *)
(* _apply_diff (git apply with a fallback to the built-in applier), the    *)
(* built-in applier _apply_diff_manually, and the hunk parser and mutator  *)
(* _parse_unified_diff / _extract_hunks.                                   *)
(*                                                                         *)
(* Text is modelled character by character: a string is a sequence of      *)
(* one-character strings, a list of lines is a sequence of such strings.   *)
(***************************************************************************)
EXTENDS Integers, Sequences, FiniteSets, TLC

VARIABLES
    pc,              \* control point of the running call
    file_exists,     \* os.path.exists(file_path)
    file_content,    \* the characters of file_path on disk
    diff_content,    \* the diff text argument
    patch,           \* the description diff_content was rendered from
    current_content, \* _apply_diff_manually: what file.read() returned
    current_lines,   \* the line list handed to _parse_unified_diff
    hunks,           \* _parse_unified_diff: the result of _extract_hunks
    new_lines,       \* _parse_unified_diff: the working copy
    k,               \* number of hunks the reversed loop has still to apply
    temp_files,      \* number of temporary .patch files on disk
    result,          \* what the call returned, or how it ended
    trail            \* the steps the call has taken, in order

\* shell_executor (src/tools/shell.py)
VARIABLES
    command,             \* the command argument
    dangerous_patterns,  \* the dangerous_patterns argument, then the local
    process              \* the commands handed to subprocess.Popen

\* is_safe_path (src/tools/utils.py)
VARIABLES
    path,                \* the path argument, then the local
    base_dir,            \* the base_dir argument, then the local
    cwd                  \* os.getcwd()

\* ArchitectAgentState (src/agents/ArchitectureDesigner/context.py)
VARIABLES
    progress,            \* the progress field
    last_updated_at,     \* the last_updated_at field
    final_architecture,  \* the final_architecture field
    clock                \* datetime.now()

\* Invocations of _apply_diff_manually that run at the same time
VARIABLES
    frames,              \* the arguments and locals of each invocation
    files                \* the content of each file path on disk

shell_vars == <<command, dangerous_patterns, process>>
path_vars == <<path, base_dir, cwd>>
state_vars == <<progress, last_updated_at, final_architecture, clock>>
frame_vars == <<frames, files>>
tool_vars == <<shell_vars, path_vars, state_vars, frame_vars>>

patch_vars == <<file_exists, file_content, diff_content, patch,
                current_content, current_lines, hunks, new_lines, k,
                temp_files>>

vars == <<pc, file_exists, file_content, diff_content, patch, current_content,
          current_lines, hunks, new_lines, k, temp_files, result, trail,
          tool_vars>>

\* The variables of a part of the program while another part runs.
ShellIdle ==
    /\ command = <<>>
    /\ dangerous_patterns = <<>>
    /\ process = <<>>

PathIdle ==
    /\ path = <<>>
    /\ base_dir = <<>>
    /\ cwd = <<>>

StateIdle ==
    /\ progress = <<>>
    /\ last_updated_at = 0
    /\ final_architecture = <<>>
    /\ clock = 0

FramesIdle ==
    /\ frames = <<>>
    /\ files = <<>>

ToolsIdle == ShellIdle /\ PathIdle /\ StateIdle /\ FramesIdle

PatchIdle ==
    /\ file_exists = FALSE
    /\ file_content = <<>>
    /\ diff_content = <<>>
    /\ patch = <<>>
    /\ current_content = <<>>
    /\ current_lines = <<>>
    /\ hunks = <<>>
    /\ new_lines = <<>>
    /\ k = 0
    /\ temp_files = 0

(***************************************************************************)
(* Bounds of the model.                                                    *)
(***************************************************************************)
MaxLen == 3
MaxBody == 2
MaxCalls == 3

Min(a, b) == IF a < b THEN a ELSE b
Max(a, b) == IF a > b THEN a ELSE b

(***************************************************************************)
(* Python strings and lists.                                               *)
(***************************************************************************)
NL == "\n"
CR == "\r"

\* str.startswith(prefix)
StartsWith(s, prefix) ==
    /\ Len(s) >= Len(prefix)
    /\ SubSeq(s, 1, Len(prefix)) = prefix

\* str.endswith(suffix)
EndsWith(s, suffix) ==
    /\ Len(s) >= Len(suffix)
    /\ SubSeq(s, Len(s) - Len(suffix) + 1, Len(s)) = suffix

\* How Python resolves a slice bound or an insert position i on a list of
\* length n: negative positions count from the end, and both ends clamp.
PyClamp(i, n) == IF i < 0 THEN Max(i + n, 0) ELSE Min(i, n)

\* lst[a:b] = []
PyDelSlice(lst, a, b) ==
    LET n == Len(lst)
        lo == PyClamp(a, n)
        hi == Max(PyClamp(b, n), lo)
    IN  SubSeq(lst, 1, lo) \o SubSeq(lst, hi + 1, n)

\* lst.insert(i, x)
PyInsert(lst, i, x) ==
    LET n == Len(lst)
        at == PyClamp(i, n)
    IN  SubSeq(lst, 1, at) \o <<x>> \o SubSeq(lst, at + 1, n)

\* reversed(lst)
RECURSIVE Reversed(_)
Reversed(lst) ==
    IF lst = <<>> THEN <<>> ELSE Append(Reversed(Tail(lst)), Head(lst))

\* str.splitlines(), for the line boundaries "\n", "\r" and "\r\n": the text
\* is cut after every boundary, the boundary is dropped, and a text that
\* ends with a boundary yields no empty last line.
RECURSIVE SplitFrom(_, _, _)
SplitFrom(s, i, cur) ==
    IF i > Len(s) THEN (IF cur = <<>> THEN <<>> ELSE <<cur>>)
    ELSE IF s[i] = NL THEN <<cur>> \o SplitFrom(s, i + 1, <<>>)
    ELSE IF s[i] = CR
         THEN <<cur>> \o SplitFrom(s, IF i < Len(s) /\ s[i + 1] = NL
                                       THEN i + 2 ELSE i + 1, <<>>)
    ELSE SplitFrom(s, i + 1, Append(cur, s[i]))

SplitLines(s) == SplitFrom(s, 1, <<>>)

\* '\n'.join(lines)
RECURSIVE Join(_)
Join(lines) ==
    IF lines = <<>> THEN <<>>
    ELSE IF Len(lines) = 1 THEN lines[1]
    ELSE lines[1] \o <<NL>> \o Join(Tail(lines))

Digits == <<"0", "1", "2", "3", "4", "5", "6", "7", "8", "9">>
IsDigit(c) == \E d \in 1..10 : Digits[d] = c
DigitValue(c) == (CHOOSE d \in 1..10 : Digits[d] = c) - 1

\* int(s) of a string of decimal digits
RECURSIVE IntOf(_)
IntOf(s) ==
    IF s = <<>> THEN 0
    ELSE 10 * IntOf(SubSeq(s, 1, Len(s) - 1)) + DigitValue(s[Len(s)])

\* str(n) of a natural number
RECURSIVE StrOf(_)
StrOf(n) ==
    IF n < 10 THEN <<Digits[n + 1]>>
    ELSE Append(StrOf(n \div 10), Digits[(n % 10) + 1])

(***************************************************************************)
(* _extract_hunks                                                          *)
(***************************************************************************)
\* The index after the longest run of digits of s that starts at index i.
RECURSIVE DigitsEnd(_, _)
DigitsEnd(s, i) ==
    IF i <= Len(s) /\ IsDigit(s[i]) THEN DigitsEnd(s, i + 1) ELSE i

\* Whether the characters lit stand in s at index i.
LitAt(s, i, lit) ==
    /\ i + Len(lit) - 1 <= Len(s)
    /\ SubSeq(s, i, i + Len(lit) - 1) = lit

NoMatch == [matched |-> FALSE, groups |-> <<>>]

\* re.match(r'^@@ -(\d+),(\d+) \+(\d+),(\d+) @@', line): the four groups of
\* a line that begins with a hunk header whose two counts are written out.
\* Text after the closing @@ is allowed. Each \d+ is followed by a literal
\* that is no digit, so the longest run of digits is the only candidate.
HunkHeaderMatch(line) ==
    IF ~LitAt(line, 1, <<"@", "@", " ", "-">>) THEN NoMatch
    ELSE LET e1 == DigitsEnd(line, 5) IN
    IF e1 = 5 \/ ~LitAt(line, e1, <<",">>) THEN NoMatch
    ELSE LET e2 == DigitsEnd(line, e1 + 1) IN
    IF e2 = e1 + 1 \/ ~LitAt(line, e2, <<" ", "+">>) THEN NoMatch
    ELSE LET e3 == DigitsEnd(line, e2 + 2) IN
    IF e3 = e2 + 2 \/ ~LitAt(line, e3, <<",">>) THEN NoMatch
    ELSE LET e4 == DigitsEnd(line, e3 + 1) IN
    IF e4 = e3 + 1 \/ ~LitAt(line, e4, <<" ", "@", "@">>) THEN NoMatch
    ELSE [matched |-> TRUE,
          groups |-> <<SubSeq(line, 5, e1 - 1), SubSeq(line, e1 + 1, e2 - 1),
                       SubSeq(line, e2 + 2, e3 - 1), SubSeq(line, e3 + 1, e4 - 1)>>]

\* current_hunk = None
None == <<>>

\* The locals of _extract_hunks before its loop.
ScanInit == [hunks |-> <<>>, current_hunk |-> None, added_lines |-> <<>>,
             in_header |-> TRUE]

\* ScanLine with the context lines of a hunk left out of its lines.
ScanLineDropsContext(st, line) ==
    LET match == HunkHeaderMatch(line) IN
    IF match.matched
    THEN LET new_start == IntOf(match.groups[3])
             old_count == IntOf(match.groups[2])
             saved     == st.current_hunk # None
         IN  [hunks |-> IF saved
                        THEN Append(st.hunks, <<st.current_hunk[1],
                                                st.current_hunk[2],
                                                st.added_lines>>)
                        ELSE st.hunks,
              current_hunk |-> <<new_start, old_count, <<>>>>,
              added_lines |-> IF saved THEN <<>> ELSE st.added_lines,
              in_header |-> FALSE]
    ELSE IF st.in_header THEN st
    ELSE IF StartsWith(line, <<"+">>)
         THEN [st EXCEPT !.added_lines = Append(@, Tail(line))]
    ELSE st

\* ScanLine with a line that begins with '@@' and matches nothing ending
\* the hunk in progress: the lines after it are skipped as header lines.
ScanLineMarkerEndsHunk(st, line) ==
    LET match == HunkHeaderMatch(line) IN
    IF match.matched
    THEN LET new_start == IntOf(match.groups[3])
             old_count == IntOf(match.groups[2])
             saved     == st.current_hunk # None
         IN  [hunks |-> IF saved
                        THEN Append(st.hunks, <<st.current_hunk[1],
                                                st.current_hunk[2],
                                                st.added_lines>>)
                        ELSE st.hunks,
              current_hunk |-> <<new_start, old_count, <<>>>>,
              added_lines |-> IF saved THEN <<>> ELSE st.added_lines,
              in_header |-> FALSE]
    ELSE IF st.in_header THEN st
    ELSE IF StartsWith(line, <<"@", "@">>)
         THEN [st EXCEPT !.in_header = TRUE]
    ELSE IF StartsWith(line, <<"+">>)
         THEN [st EXCEPT !.added_lines = Append(@, Tail(line))]
    ELSE IF StartsWith(line, <<"-">>) THEN st
    ELSE IF StartsWith(line, <<" ">>)
         THEN [st EXCEPT !.added_lines = Append(@, Tail(line))]
    ELSE st

\* One iteration of the while loop of _extract_hunks on one line.
ScanLine(st, line) ==
    LET match == HunkHeaderMatch(line) IN
    IF match.matched
    THEN LET new_start == IntOf(match.groups[3])
             old_count == IntOf(match.groups[2])
             saved     == st.current_hunk # None
         IN  [hunks |-> IF saved
                        THEN Append(st.hunks, <<st.current_hunk[1],
                                                st.current_hunk[2],
                                                st.added_lines>>)
                        ELSE st.hunks,
              current_hunk |-> <<new_start, old_count, <<>>>>,
              added_lines |-> IF saved THEN <<>> ELSE st.added_lines,
              in_header |-> FALSE]
    ELSE IF st.in_header THEN st
    ELSE IF StartsWith(line, <<"+">>)
         THEN [st EXCEPT !.added_lines = Append(@, Tail(line))]
    ELSE IF StartsWith(line, <<"-">>) THEN st
    ELSE IF StartsWith(line, <<" ">>)
         THEN [st EXCEPT !.added_lines = Append(@, Tail(line))]
    ELSE st

RECURSIVE ScanLines(_, _)
ScanLines(st, lines) ==
    IF lines = <<>> THEN st
    ELSE ScanLines(ScanLine(st, Head(lines)), Tail(lines))

\* _extract_hunks(diff_content): each hunk is (start_line, removed_count,
\* added_lines).
ExtractHunks(text) ==
    LET st == ScanLines(ScanInit, SplitLines(text)) IN
    IF st.current_hunk # None
    THEN Append(st.hunks, <<st.current_hunk[1], st.current_hunk[2],
                            st.added_lines>>)
    ELSE st.hunks

(***************************************************************************)
(* _parse_unified_diff                                                     *)
(***************************************************************************)
\* for i, line in enumerate(added_lines): new_lines.insert(start_idx + i, line)
RECURSIVE InsertLines(_, _, _, _)
InsertLines(lst, start_idx, added_lines, i) ==
    IF i >= Len(added_lines) THEN lst
    ELSE InsertLines(PyInsert(lst, start_idx + i, added_lines[i + 1]),
                     start_idx, added_lines, i + 1)

\* ApplyHunk without the adjustment to 0-based indexing.
ApplyHunkOneBased(lst, hunk) ==
    LET start_idx == hunk[1]
        removed   == IF hunk[2] > 0
                     THEN PyDelSlice(lst, start_idx, start_idx + hunk[2])
                     ELSE lst
    IN  InsertLines(removed, start_idx, hunk[3], 0)

\* ApplyHunk leaving the list alone when the hunk's range runs past its end.
ApplyHunkInRangeOnly(lst, hunk) ==
    LET start_idx == hunk[1] - 1
        removed   == IF hunk[2] > 0
                     THEN PyDelSlice(lst, start_idx, start_idx + hunk[2])
                     ELSE lst
    IN  IF start_idx + hunk[2] > Len(lst) THEN lst
        ELSE InsertLines(removed, start_idx, hunk[3], 0)

\* The body of the loop over the hunks: one hunk applied to new_lines.
ApplyHunk(lst, hunk) ==
    LET start_line    == hunk[1]
        removed_count == hunk[2]
        added_lines   == hunk[3]
        start_idx     == start_line - 1
        removed       == IF removed_count > 0
                         THEN PyDelSlice(lst, start_idx, start_idx + removed_count)
                         ELSE lst
    IN  InsertLines(removed, start_idx, added_lines, 0)

\* The hunks of hs applied to lst one after the other, hs[1] first.
RECURSIVE ApplyInTurn(_, _)
ApplyInTurn(lst, hs) ==
    IF hs = <<>> THEN lst
    ELSE ApplyInTurn(ApplyHunk(lst, Head(hs)), Tail(hs))

\* _parse_unified_diff(current_lines, diff_content)
ParseUnifiedDiff(lines, text) ==
    ApplyInTurn(lines, Reversed(ExtractHunks(text)))

(***************************************************************************)
(* Inputs: an original line list and the description of a patch, from      *)
(* which the diff text is rendered as a unified diff writes it.            *)
(*                                                                         *)
(* A hunk description holds the numbers of the hunk header, the body as a  *)
(* sequence of <<marker, text>> lines, and which counts the header writes  *)
(* out ("full": both, "noold" / "nonew": one omitted, "none": both         *)
(* omitted).                                                               *)
(***************************************************************************)
Letters == <<"a", "b", "c", "d", "e", "f">>

\* The lines <<"a">>, <<"b">>, ... of a file of n distinct lines.
DistinctLines(n) == [i \in 1..n |-> <<Letters[i]>>]

\* A file of n lines that all read "a".
SameLines(n) == [i \in 1..n |-> <<"a">>]

Originals ==
    {DistinctLines(n) : n \in 0..MaxLen} \cup {SameLines(n) : n \in 0..MaxLen}

\* All sequences over S of length lo..hi.
SeqsOf(S, lo, hi) == UNION {[1..n -> S] : n \in lo..hi}

Markers == {" ", "-", "+"}

Count(body, ms) == Cardinality({i \in 1..Len(body) : body[i][1] \in ms})

\* The body that a sequence of markers describes on the original lines
\* from line s on: context and removed lines are the next original lines,
\* an added line reads "x".
RECURSIVE BodyOf(_, _, _)
BodyOf(orig, s, shape) ==
    IF shape = <<>> THEN <<>>
    ELSE IF Head(shape) = "+"
         THEN <<<<"+", <<"x">>>>>> \o BodyOf(orig, s, Tail(shape))
         ELSE <<<<Head(shape), orig[s]>>>> \o BodyOf(orig, s + 1, Tail(shape))

Consumed(shape) == Cardinality({i \in 1..Len(shape) : shape[i] # "+"})
Produced(shape) == Cardinality({i \in 1..Len(shape) : shape[i] # "-"})

\* The forms a header may be written in: a count may be omitted only when
\* it is 1.
FormsOf(old_count, new_count) ==
    {"full"} \cup (IF old_count = 1 THEN {"noold"} ELSE {})
             \cup (IF new_count = 1 THEN {"nonew"} ELSE {})
             \cup (IF old_count = 1 /\ new_count = 1 THEN {"none"} ELSE {})

HunkDesc(orig, s, shift, shape, form) ==
    [old_start |-> s, old_count |-> Consumed(shape),
     new_start |-> s + shift, new_count |-> Produced(shape),
     body |-> BodyOf(orig, s, shape), form |-> form]

\* The patches of one or two hunks on orig that a diff tool can produce:
\* every hunk spans at least one original line, the hunks ascend and do not
\* overlap, and a hunk's new_start is its old_start plus the net line
\* change of the hunks before it.
WellFormedPatches(orig) ==
    LET shapes == {sh \in SeqsOf(Markers, 1, MaxBody) : Consumed(sh) >= 1}
        fits(s, sh) == s + Consumed(sh) - 1 <= Len(orig)
        one == {<<HunkDesc(orig, s, 0, sh, f)>> :
                  <<s, sh, f>> \in {t \in (1..Len(orig)) \X shapes \X
                                          {"full", "noold", "nonew", "none"} :
                                      /\ fits(t[1], t[2])
                                      /\ t[3] \in FormsOf(Consumed(t[2]), Produced(t[2]))}}
        two == UNION {
                 {p \o <<HunkDesc(orig, s, p[1].new_count - p[1].old_count, sh, "full")>> :
                    <<s, sh>> \in {t \in (1..Len(orig)) \X shapes :
                                     /\ t[1] >= p[1].old_start + p[1].old_count
                                     /\ fits(t[1], t[2])}} :
                 p \in {q \in one : q[1].form = "full"}}
    IN  one \cup two

\* The patches of one hunk of any start, count and lines, and of two hunks
\* that only insert, the second at a later line than the first. The lines
\* read "a" (a line the original may hold) or "x" (a line it does not).
RawHunk(s, r, lines) ==
    [old_start |-> s, old_count |-> r, new_start |-> s, new_count |-> Len(lines),
     body |-> [i \in 1..Len(lines) |-> <<"+", lines[i]>>], form |-> "full"]

RawPatches ==
    LET starts == 0..(MaxLen + 2)
        texts(lo) == SeqsOf({<<"a">>, <<"x">>}, lo, MaxBody)
    IN  {<<RawHunk(s, r, ls)>> : <<s, r, ls>> \in starts \X (0..MaxBody) \X texts(0)}
        \cup {<<RawHunk(t[1], 0, t[3]), RawHunk(t[2], 0, t[4])>> :
                t \in {u \in starts \X starts \X texts(1) \X texts(1) : u[1] < u[2]}}

\* The header line of a hunk.
HeaderLine(h) ==
    <<"@", "@", " ", "-">> \o StrOf(h.old_start)
      \o (IF h.form \in {"full", "nonew"} THEN <<",">> \o StrOf(h.old_count) ELSE <<>>)
      \o <<" ", "+">> \o StrOf(h.new_start)
      \o (IF h.form \in {"full", "noold"} THEN <<",">> \o StrOf(h.new_count) ELSE <<>>)
      \o <<" ", "@", "@">>

\* The lines of a hunk in the diff text: its header, then its body lines,
\* each its marker followed by its text.
HunkLines(h) ==
    <<HeaderLine(h)>> \o [i \in 1..Len(h.body) |-> <<h.body[i][1]>> \o h.body[i][2]]

RECURSIVE PatchLines(_)
PatchLines(p) ==
    IF p = <<>> THEN <<>> ELSE HunkLines(Head(p)) \o PatchLines(Tail(p))

\* The diff text of a patch: its lines, each ended by a newline.
RECURSIVE Unlines(_)
Unlines(lines) ==
    IF lines = <<>> THEN <<>>
    ELSE Head(lines) \o <<NL>> \o Unlines(Tail(lines))

Render(p) == Unlines(PatchLines(p))

\* The same patch with every count written out.
Explicit(p) == [i \in 1..Len(p) |-> [p[i] EXCEPT !.form = "full"]]

\* A line of a diff text with what it is: a hunk header with both counts
\* ("header", start and count being its new_start and old_count), a hunk
\* header with the counts omitted ("short"), a line that begins with '@@'
\* and is no header ("junk"), an added, a removed and a context line, and
\* the '+++' and '---' lines of a file section.
DiffLine(kind, start, count, text) ==
    [kind |-> kind, start |-> start, count |-> count, text |-> text]

HeaderOf(old_start, old_count, new_start, new_count, form) ==
    HeaderLine([old_start |-> old_start, old_count |-> old_count,
                new_start |-> new_start, new_count |-> new_count,
                form |-> form])

DiffLines ==
    { DiffLine("header", 1, 1, HeaderOf(1, 1, 1, 2, "full")),
      DiffLine("header", 3, 0, HeaderOf(2, 0, 3, 1, "full")),
      DiffLine("short", 2, 1, HeaderOf(2, 1, 2, 1, "none")),
      DiffLine("junk", 0, 0, <<"@", "@", " ", "j">>),
      DiffLine("add", 0, 0, <<"+", "x">>),
      DiffLine("del", 0, 0, <<"-", "a">>),
      DiffLine("ctx", 0, 0, <<" ", "a">>),
      DiffLine("plus3", 0, 0, <<"+", "+", "+", " ", "b">>),
      DiffLine("minus3", 0, 0, <<"-", "-", "-", " ", "a">>) }

\* The diff text of a sequence of described lines.
TextOf(ls) == Unlines([i \in 1..Len(ls) |-> ls[i].text])

\* ls without its i-th line.
Without(ls, i) == SubSeq(ls, 1, i - 1) \o SubSeq(ls, i + 1, Len(ls))

(***************************************************************************)
(* _parse_unified_diff, one step per statement group: the extraction of    *)
(* the hunks, each iteration of the loop over reversed(hunks), the return. *)
(***************************************************************************)
Idle == <<>>

InitParse(orig, p) ==
    /\ pc = "parse"
    /\ current_lines = orig
    /\ patch = p
    /\ diff_content = Render(p)
    /\ hunks = <<>>
    /\ new_lines = <<>>
    /\ k = 0
    /\ result = Idle
    /\ trail = <<>>
    /\ file_exists = FALSE
    /\ file_content = <<>>
    /\ current_content = <<>>
    /\ temp_files = 0
    /\ ToolsIdle

InitPatch == \E orig \in {DistinctLines(n) : n \in 0..MaxLen} :
               \E p \in WellFormedPatches(orig) : InitParse(orig, p)

InitHunks == \E orig \in Originals : \E p \in RawPatches : InitParse(orig, p)

\* A call of _parse_unified_diff on a file of MaxLen distinct lines with a
\* diff text of up to MaxLen + 1 lines of any kind in any order.
InitText ==
    /\ pc = "parse"
    /\ current_lines = DistinctLines(MaxLen)
    /\ patch \in SeqsOf(DiffLines, 0, MaxLen + 1)
    /\ diff_content = TextOf(patch)
    /\ hunks = <<>>
    /\ new_lines = <<>>
    /\ k = 0
    /\ result = Idle
    /\ trail = <<>>
    /\ file_exists = FALSE
    /\ file_content = <<>>
    /\ current_content = <<>>
    /\ temp_files = 0
    /\ ToolsIdle

\* Extract with the hunks of the call before kept in the list.
ExtractKeepsHunks ==
    /\ pc = "parse"
    /\ new_lines' = current_lines
    /\ hunks' = hunks \o ExtractHunks(diff_content)
    /\ k' = Len(hunks')
    /\ pc' = "loop"
    /\ UNCHANGED <<file_exists, file_content, diff_content, patch,
                   current_content, current_lines, temp_files, result, trail>>
    /\ UNCHANGED tool_vars

\* new_lines = current_lines.copy(); hunks = _extract_hunks(diff_content)
Extract ==
    /\ pc = "parse"
    /\ new_lines' = current_lines
    /\ hunks' = ExtractHunks(diff_content)
    /\ k' = Len(hunks')
    /\ pc' = "loop"
    /\ UNCHANGED <<file_exists, file_content, diff_content, patch,
                   current_content, current_lines, temp_files, result, trail>>
    /\ UNCHANGED tool_vars

\* ApplyNext with the loop running over hunks instead of reversed(hunks).
ApplyNextInFileOrder ==
    /\ pc = "loop"
    /\ k > 0
    /\ new_lines' = ApplyHunk(new_lines, hunks[Len(hunks) - k + 1])
    /\ k' = k - 1
    /\ UNCHANGED <<pc, file_exists, file_content, diff_content, patch,
                   current_content, current_lines, hunks, temp_files, result,
                   trail>>
    /\ UNCHANGED tool_vars

\* One iteration of: for hunk in reversed(hunks)
ApplyNext ==
    /\ pc = "loop"
    /\ k > 0
    /\ new_lines' = ApplyHunk(new_lines, hunks[k])
    /\ k' = k - 1
    /\ UNCHANGED <<pc, file_exists, file_content, diff_content, patch,
                   current_content, current_lines, hunks, temp_files, result,
                   trail>>
    /\ UNCHANGED tool_vars

\* return new_lines
ReturnLines ==
    /\ pc = "loop"
    /\ k = 0
    /\ pc' = "done"
    /\ result' = new_lines
    /\ UNCHANGED <<file_exists, file_content, diff_content, patch,
                   current_content, current_lines, hunks, new_lines, k,
                   temp_files, trail>>
    /\ UNCHANGED tool_vars

NextParse == Extract \/ ApplyNext \/ ReturnLines

SpecPatch == InitPatch /\ [][NextParse]_vars
SpecHunks == InitHunks /\ [][NextParse]_vars
SpecText == InitText /\ [][NextParse]_vars

\* The steps above compute what the function computes in one piece.
StepsAgree ==
    pc = "done" => result = ParseUnifiedDiff(current_lines, diff_content)

(***************************************************************************)
(* The dispatcher _apply_diff and the two appliers, one step per           *)
(* statement that touches the file system or starts a process. Every such  *)
(* statement may fail; the failure is an input of the step.                *)
(*                                                                         *)
(* os.unlink of the temporary file the call itself created is taken to     *)
(* succeed. What git apply does to the working tree is not code of this    *)
(* repository: on success it leaves file_path with any content.            *)
(***************************************************************************)
file_path == "f"

\* The messages of the three return statements and of the two handlers.
\* How a call ends: it returns the string value, or the exception value
\* leaves it.
Returned(message) == [raised |-> FALSE, value |-> message]
Raised(e) == [raised |-> TRUE, value |-> e]
NoResult == Returned(<<>>)

GitSuccess ==
    Returned(<<"Git diff applied to ", file_path, " successfully using git apply">>)
ManualSuccess ==
    Returned(<<"Git diff applied to ", file_path,
               " successfully using manual diff parser">>)
GitError(e) == Returned(<<"Error applying git diff with git apply: ", e>>)
ManualError(e) == Returned(<<"Error applying git diff manually: ", e>>)

DiffGitPrefix == <<"d", "i", "f", "f", " ", "-", "-", "g", "i", "t">>

\* All texts of at most MaxLen characters over "a" and the newline.
FileTexts == SeqsOf({"a", NL}, 0, MaxLen)

\* The diff texts of the calls: no hunk at all, or one hunk of any start
\* and count whose lines are empty or read "x"; as a bare fragment or
\* after a 'diff --git' line.
CallPatches ==
    {<<>>} \cup
    {<<RawHunk(s, r, ls)>> :
       <<s, r, ls>> \in (1..MaxLen) \X (0..1) \X SeqsOf({<<>>, <<"x">>}, 0, MaxBody)}

\* The fragments that add the lines of a new file, '@@ -0,0 +1,n @@' and
\* n added lines, with n written out or, when it is 1, omitted.
NewFilePatches ==
    {<<[old_start |-> 0, old_count |-> 0, new_start |-> 1,
        new_count |-> Len(ls),
        body |-> [i \in 1..Len(ls) |-> <<"+", ls[i]>>], form |-> f]>> :
       <<ls, f>> \in {t \in SeqsOf({<<>>, <<"x">>}, 1, MaxBody) \X {"full", "noold"} :
                        t[2] = "full" \/ Len(t[1]) = 1}}

\* The two texts a call may pass for a patch.
DiffsOf(p) == {Render(p), DiffGitPrefix \o <<NL>> \o Render(p)}

CallDiffs ==
    UNION {DiffsOf(p) : p \in CallPatches \cup NewFilePatches}

Init ==
    /\ pc = "start"
    /\ file_exists \in BOOLEAN
    /\ file_content \in (IF file_exists THEN FileTexts ELSE {<<>>})
    /\ patch \in CallPatches \cup NewFilePatches
    /\ diff_content \in DiffsOf(patch)
    /\ current_content = <<>>
    /\ current_lines = <<>>
    /\ hunks = <<>>
    /\ new_lines = <<>>
    /\ k = 0
    /\ temp_files = 0
    /\ result = NoResult
    /\ trail = <<>>
    /\ ToolsIdle

Did(step) == \E i \in 1..Len(trail) : trail[i] = step
Times(step) == Cardinality({i \in 1..Len(trail) : trail[i] = step})

\* _apply_diff, lines 28-31: create the missing target of a bare fragment.
CreateMissing ==
    /\ pc = "start"
    /\ IF ~file_exists /\ ~StartsWith(diff_content, DiffGitPrefix)
       THEN \/ /\ file_exists' = TRUE
               /\ file_content' = <<>>
               /\ pc' = "probe"
               /\ trail' = Append(trail, "create")
               /\ UNCHANGED result
            \/ \* open(file_path, 'w') raises: nothing catches it
               /\ pc' = "done"
               /\ result' = Raised("OSError")
               /\ trail' = Append(trail, "create_failed")
               /\ UNCHANGED <<file_exists, file_content>>
       ELSE /\ pc' = "probe"
            /\ UNCHANGED <<file_exists, file_content, result, trail>>
    /\ UNCHANGED <<diff_content, patch, current_content, current_lines, hunks,
                   new_lines, k, temp_files>>
    /\ UNCHANGED tool_vars

\* ProbeGit with the git applier entered whatever the probe found.
ProbeGitAlwaysStages ==
    /\ pc = "probe"
    /\ \/ /\ pc' = "stage"
          /\ trail' = Append(trail, "git_available")
          /\ UNCHANGED result
       \/ /\ pc' = "stage"
          /\ trail' = Append(trail, "git_unavailable")
          /\ UNCHANGED result
       \/ /\ pc' = "done"
          /\ result' = Raised("PermissionError")
          /\ trail' = Append(trail, "probe_failed")
    /\ UNCHANGED <<file_exists, file_content, diff_content, patch,
                   current_content, current_lines, hunks, new_lines, k,
                   temp_files>>
    /\ UNCHANGED tool_vars

\* _is_git_available and the branch of _apply_diff on its result.
ProbeGit ==
    /\ pc = "probe"
    /\ \/ \* git --version exits with status zero
          /\ pc' = "stage"
          /\ trail' = Append(trail, "git_available")
          /\ UNCHANGED result
       \/ \* CalledProcessError or FileNotFoundError: caught, False
          /\ pc' = "manual"
          /\ trail' = Append(trail, "git_unavailable")
          /\ UNCHANGED result
       \/ \* any other OSError of subprocess.run, such as PermissionError,
          \* is not among the caught exceptions
          /\ pc' = "done"
          /\ result' = Raised("PermissionError")
          /\ trail' = Append(trail, "probe_failed")
    /\ UNCHANGED <<file_exists, file_content, diff_content, patch,
                   current_content, current_lines, hunks, new_lines, k,
                   temp_files>>
    /\ UNCHANGED tool_vars

\* _apply_diff_using_git, lines 52-54: the temporary file and its content.
StageTemp ==
    /\ pc = "stage"
    /\ \/ /\ temp_files' = temp_files + 1
          /\ pc' = "git_apply"
          /\ trail' = Append(trail, "staged")
          /\ UNCHANGED result
       \/ \* NamedTemporaryFile raises: no file exists, the outer handler
          \* returns
          /\ pc' = "done"
          /\ result' = GitError("OSError")
          /\ trail' = Append(trail, "tempfile_failed")
          /\ UNCHANGED temp_files
       \/ \* temp_file.write (or the flush on leaving the with block)
          \* raises: the file exists, the inner try is never entered, the
          \* outer handler returns
          /\ temp_files' = temp_files + 1
          /\ pc' = "done"
          /\ result' = GitError("OSError")
          /\ trail' = Append(trail, "stage_write_failed")
    /\ UNCHANGED <<file_exists, file_content, diff_content, patch,
                   current_content, current_lines, hunks, new_lines, k>>
    /\ UNCHANGED tool_vars

\* RunGitApply with the handler of CalledProcessError reporting the
\* rejection instead of calling the built-in applier.
RunGitApplyNoFallback ==
    /\ pc = "git_apply"
    /\ \/ /\ file_exists' = TRUE
          /\ file_content' \in FileTexts
          /\ result' = GitSuccess
          /\ trail' = Append(trail, "git_applied")
       \/ /\ result' = GitError("CalledProcessError")
          /\ trail' = Append(trail, "git_rejected")
          /\ UNCHANGED <<file_exists, file_content>>
       \/ /\ result' = GitError("OSError")
          /\ trail' = Append(trail, "git_launch_failed")
          /\ UNCHANGED <<file_exists, file_content>>
    /\ pc' = "unlink"
    /\ UNCHANGED <<diff_content, patch, current_content, current_lines, hunks,
                   new_lines, k, temp_files>>
    /\ UNCHANGED tool_vars

\* _apply_diff_using_git, lines 56-68: git apply and what follows from how
\* it ends.
RunGitApply ==
    /\ pc = "git_apply"
    /\ \/ \* status zero: return the success message (after the finally)
          /\ file_exists' = TRUE
          /\ file_content' \in FileTexts
          /\ pc' = "unlink"
          /\ result' = GitSuccess
          /\ trail' = Append(trail, "git_applied")
       \/ \* CalledProcessError: return _apply_diff_manually(...)
          /\ pc' = "manual"
          /\ trail' = Append(trail, "git_rejected")
          /\ UNCHANGED <<file_exists, file_content, result>>
       \/ \* any other exception of subprocess.run passes the finally and
          \* reaches the outer handler
          /\ pc' = "unlink"
          /\ result' = GitError("OSError")
          /\ trail' = Append(trail, "git_launch_failed")
          /\ UNCHANGED <<file_exists, file_content>>
    /\ UNCHANGED <<diff_content, patch, current_content, current_lines, hunks,
                   new_lines, k, temp_files>>
    /\ UNCHANGED tool_vars

\* Where _apply_diff_manually returns to: the finally of
\* _apply_diff_using_git when git apply ran, else the caller of _apply_diff.
AfterManual == IF Did("git_rejected") THEN "unlink" ELSE "done"

\* _apply_diff_manually, lines 82-88: read the file and split it.
ManualRead ==
    /\ pc = "manual"
    /\ \/ /\ current_content' = IF file_exists THEN file_content ELSE <<>>
          /\ current_lines' = SplitLines(current_content')
          /\ pc' = "manual_parse"
          /\ trail' = Append(trail, "manual")
          /\ UNCHANGED result
       \/ \* open or read raises
          /\ file_exists
          /\ pc' = AfterManual
          /\ result' = ManualError("OSError")
          /\ trail' = trail \o <<"manual", "read_failed", "manual_failed">>
          /\ UNCHANGED <<current_content, current_lines>>
    /\ UNCHANGED <<file_exists, file_content, diff_content, patch, hunks,
                   new_lines, k, temp_files>>
    /\ UNCHANGED tool_vars

\* ManualParse letting the exception of _parse_unified_diff leave the
\* applier.
ManualParseRaises ==
    /\ pc = "manual_parse"
    /\ \/ /\ new_lines' = ParseUnifiedDiff(current_lines, diff_content)
          /\ pc' = "manual_write"
          /\ UNCHANGED <<result, trail>>
       \/ /\ pc' = "done"
          /\ result' = Raised("ValueError")
          /\ trail' = trail \o <<"parse_failed", "manual_failed">>
          /\ UNCHANGED new_lines
    /\ UNCHANGED <<file_exists, file_content, diff_content, patch,
                   current_content, current_lines, hunks, k, temp_files>>
    /\ UNCHANGED tool_vars

\* _apply_diff_manually, line 91
ManualParse ==
    /\ pc = "manual_parse"
    /\ \/ /\ new_lines' = ParseUnifiedDiff(current_lines, diff_content)
          /\ pc' = "manual_write"
          /\ UNCHANGED <<result, trail>>
       \/ \* _parse_unified_diff raises (int() refuses a count longer than
          \* the interpreter's digit limit, or memory runs out)
          /\ pc' = AfterManual
          /\ result' = ManualError("ValueError")
          /\ trail' = trail \o <<"parse_failed", "manual_failed">>
          /\ UNCHANGED new_lines
    /\ UNCHANGED <<file_exists, file_content, diff_content, patch,
                   current_content, current_lines, hunks, k, temp_files>>
    /\ UNCHANGED tool_vars

\* WrittenContent with the newline appended whatever the original ended
\* with.
WrittenContentAlwaysNewline(content, lines) == Join(lines) \o <<NL>>

\* WrittenContent with no newline appended whatever the original ended with.
WrittenContentBareJoin(content, lines) == Join(lines)

\* What lines 95-98 write: the lines joined by newlines and, if the
\* original content ended with a newline, one more newline.
WrittenContent(content, lines) ==
    Join(lines) \o (IF content # <<>> /\ EndsWith(content, <<NL>>)
                    THEN <<NL>> ELSE <<>>)

\* ManualWrite reporting success whether or not the write completed.
ManualWriteReportsSuccess ==
    /\ pc = "manual_write"
    /\ \/ /\ file_exists' = TRUE
          /\ file_content' = WrittenContent(current_content, new_lines)
          /\ result' = ManualSuccess
          /\ trail' = Append(trail, "manual_written")
       \/ /\ result' = ManualSuccess
          /\ trail' = Append(trail, "manual_failed")
          /\ UNCHANGED <<file_exists, file_content>>
       \/ /\ file_exists' = TRUE
          /\ file_content' \in {<<>>, Join(new_lines)}
          /\ result' = ManualSuccess
          /\ trail' = Append(trail, "manual_failed")
    /\ pc' = AfterManual
    /\ UNCHANGED <<diff_content, patch, current_content, current_lines, hunks,
                   new_lines, k, temp_files>>
    /\ UNCHANGED tool_vars

\* _apply_diff_manually, lines 94-102: write the file and return.
ManualWrite ==
    /\ pc = "manual_write"
    /\ \/ /\ file_exists' = TRUE
          /\ file_content' = WrittenContent(current_content, new_lines)
          /\ result' = ManualSuccess
          /\ trail' = Append(trail, "manual_written")
       \/ \* open(file_path, 'w') raises: the file is as it was
          /\ result' = ManualError("OSError")
          /\ trail' = Append(trail, "manual_failed")
          /\ UNCHANGED <<file_exists, file_content>>
       \/ \* a file.write raises after open truncated the file: nothing,
          \* or only the joined lines, has reached the disk
          /\ file_exists' = TRUE
          /\ file_content' \in {<<>>, Join(new_lines)}
          /\ result' = ManualError("OSError")
          /\ trail' = Append(trail, "manual_failed")
    /\ pc' = AfterManual
    /\ UNCHANGED <<diff_content, patch, current_content, current_lines, hunks,
                   new_lines, k, temp_files>>
    /\ UNCHANGED tool_vars

\* _apply_diff_using_git, lines 69-71: the finally clause, then the return.
Unlink ==
    /\ pc = "unlink"
    /\ temp_files' = temp_files - 1
    /\ pc' = "done"
    /\ trail' = Append(trail, "unlinked")
    /\ UNCHANGED <<file_exists, file_content, diff_content, patch,
                   current_content, current_lines, hunks, new_lines, k, result>>
    /\ UNCHANGED tool_vars

Next ==
    \/ CreateMissing
    \/ ProbeGit
    \/ StageTemp
    \/ RunGitApply
    \/ ManualRead
    \/ ManualParse
    \/ ManualWrite
    \/ Unlink

Spec == Init /\ [][Next]_vars

(***************************************************************************)
(* Calls of the built-in applier one after the other, as the dispatcher    *)
(* makes them when git is not available. The variables are those of the    *)
(* module: what one call leaves in them is there when the next call        *)
(* starts. trail is the list of the calls: the content each found, its     *)
(* diff text, and what it wrote and returned. Between two calls another    *)
(* program may rewrite the file. Reads and writes succeed here; their      *)
(* failures are steps of Spec.                                             *)
(***************************************************************************)
CallFiles == {<<"a", NL>>, <<"a", NL, "b">>}

CallTexts ==
    {Render(p) : p \in {<<>>, <<RawHunk(1, 0, <<<<"x">>>>)>>,
                        <<RawHunk(1, 1, <<>>)>>}}

InitCalls ==
    /\ pc = "idle"
    /\ file_exists = TRUE
    /\ file_content \in CallFiles
    /\ diff_content = <<>>
    /\ patch = <<>>
    /\ current_content = <<>>
    /\ current_lines = <<>>
    /\ hunks = <<>>
    /\ new_lines = <<>>
    /\ k = 0
    /\ temp_files = 0
    /\ result = NoResult
    /\ trail = <<>>
    /\ ToolsIdle

\* _apply_diff_manually(file_path, diff_content) is called.
BeginCall ==
    /\ pc = "idle"
    /\ Len(trail) < MaxCalls
    /\ diff_content' \in CallTexts
    /\ file_content' \in {file_content} \cup CallFiles
    /\ trail' = Append(trail, [content |-> file_content', diff |-> diff_content',
                               done |-> FALSE, written |-> <<>>,
                               message |-> NoResult])
    /\ pc' = "read"
    /\ UNCHANGED <<file_exists, patch, current_content, current_lines, hunks,
                   new_lines, k, temp_files, result>>
    /\ UNCHANGED tool_vars

\* Lines 81-88: read the file and split it into lines; line 91 calls
\* _parse_unified_diff.
CallRead ==
    /\ pc = "read"
    /\ current_content' = file_content
    /\ current_lines' = SplitLines(current_content')
    /\ pc' = "parse"
    /\ UNCHANGED <<file_exists, file_content, diff_content, patch, hunks,
                   new_lines, k, temp_files, result, trail>>
    /\ UNCHANGED tool_vars

\* Lines 94-100: write what _parse_unified_diff returned, and return.
CallWrite ==
    /\ pc = "done"
    /\ file_content' = WrittenContent(current_content, result)
    /\ result' = ManualSuccess
    /\ trail' = [trail EXCEPT ![Len(trail)] =
                    [@ EXCEPT !.done = TRUE, !.written = file_content',
                              !.message = result']]
    /\ pc' = "idle"
    /\ UNCHANGED <<file_exists, diff_content, patch, current_content,
                   current_lines, hunks, new_lines, k, temp_files>>
    /\ UNCHANGED tool_vars

NextCalls == BeginCall \/ CallRead \/ Extract \/ ApplyNext \/ ReturnLines
             \/ CallWrite

SpecCalls == InitCalls /\ [][NextCalls]_vars

(***************************************************************************)
(* Two invocations of the built-in applier that run at the same time, each *)
(* with its own arguments and locals (frames[i]); the file system (files)  *)
(* is all they share. A step is the read, the parse or the write of one    *)
(* invocation; trail lists the steps in the order they were taken. Reads   *)
(* and writes succeed here; their failures are steps of Spec.              *)
(***************************************************************************)
Invocations == {1, 2}
Paths == {"f", "g"}

TwoFiles == {<<"a", NL>>, <<"a", NL, "b", NL>>}

TwoTexts ==
    {Render(p) : p \in {<<RawHunk(1, 0, <<<<"x">>>>)>>,
                        <<RawHunk(2, 0, <<<<"y">>>>)>>,
                        <<RawHunk(1, 1, <<>>)>>}}

InitTwo ==
    /\ files \in [Paths -> TwoFiles]
    /\ frames \in [Invocations ->
                     [pc : {"read"}, file_path : Paths, diff_content : TwoTexts,
                      current_content : {<<>>}, current_lines : {<<>>},
                      new_lines : {<<>>}, result : {NoResult}]]
    /\ pc = "two"
    /\ result = files
    /\ trail = <<>>
    /\ PatchIdle
    /\ ShellIdle /\ PathIdle /\ StateIdle

\* Lines 81-88 in invocation i.
ReadBy(i) ==
    /\ frames[i].pc = "read"
    /\ frames' = [frames EXCEPT ![i] =
                    [@ EXCEPT !.current_content = files[frames[i].file_path],
                              !.current_lines =
                                  SplitLines(files[frames[i].file_path]),
                              !.pc = "parse"]]
    /\ trail' = Append(trail, [by |-> i, step |-> "read"])
    /\ UNCHANGED files

\* Line 91 in invocation i.
ParseBy(i) ==
    /\ frames[i].pc = "parse"
    /\ frames' = [frames EXCEPT ![i] =
                    [@ EXCEPT !.new_lines =
                                  ParseUnifiedDiff(frames[i].current_lines,
                                                   frames[i].diff_content),
                              !.pc = "write"]]
    /\ trail' = Append(trail, [by |-> i, step |-> "parse"])
    /\ UNCHANGED files

\* WriteBy with the file read again when it is written.
WriteByOnFreshRead(i) ==
    /\ frames[i].pc = "write"
    /\ files' = [files EXCEPT ![frames[i].file_path] =
                   WrittenContent(@, ParseUnifiedDiff(SplitLines(@),
                                                      frames[i].diff_content))]
    /\ frames' = [frames EXCEPT ![i] =
                    [@ EXCEPT !.result = ManualSuccess, !.pc = "done"]]
    /\ trail' = Append(trail, [by |-> i, step |-> "write"])

\* WriteBy with one file path for every invocation.
WriteByToOnePath(i) ==
    /\ frames[i].pc = "write"
    /\ files' = [files EXCEPT !["f"] =
                   WrittenContent(frames[i].current_content,
                                  frames[i].new_lines)]
    /\ frames' = [frames EXCEPT ![i] =
                    [@ EXCEPT !.result = ManualSuccess, !.pc = "done"]]
    /\ trail' = Append(trail, [by |-> i, step |-> "write"])

\* Lines 94-100 in invocation i.
WriteBy(i) ==
    /\ frames[i].pc = "write"
    /\ files' = [files EXCEPT ![frames[i].file_path] =
                   WrittenContent(frames[i].current_content,
                                  frames[i].new_lines)]
    /\ frames' = [frames EXCEPT ![i] =
                    [@ EXCEPT !.result = ManualSuccess, !.pc = "done"]]
    /\ trail' = Append(trail, [by |-> i, step |-> "write"])

\* The variables no invocation touches; result keeps the files as they
\* were before the invocations.
TwoFrame ==
    /\ UNCHANGED <<pc, result, patch_vars>>
    /\ UNCHANGED <<shell_vars, path_vars, state_vars>>

TwoRead == (\E i \in Invocations : ReadBy(i)) /\ TwoFrame
TwoParse == (\E i \in Invocations : ParseBy(i)) /\ TwoFrame
TwoWrite == (\E i \in Invocations : WriteBy(i)) /\ TwoFrame

NextTwo == TwoRead \/ TwoParse \/ TwoWrite

SpecTwo == InitTwo /\ [][NextTwo]_vars

(***************************************************************************)
(* write_file of src/tools/files.py: content that looks like a diff goes   *)
(* to _apply_diff as its diff_content, any other content overwrites the    *)
(* file. The content argument stands in diff_content from the start.       *)
(***************************************************************************)
\* The lines a content is made of: those of a diff text, a 'diff --git'
\* line, a line of plain text and a '---' rule as it opens a front-matter
\* block.
ContentLines ==
    DiffLines \cup
    { DiffLine("git", 0, 0, DiffGitPrefix),
      DiffLine("plain", 0, 0, <<"a">>),
      DiffLine("rule", 0, 0, <<"-", "-", "-">>) }

\* write_file returns nothing.
ReturnedNone == Returned(<<"None">>)

InitWrite ==
    /\ pc = "write_file"
    /\ file_exists \in BOOLEAN
    /\ file_content \in (IF file_exists THEN {<<>>, <<"a">>, <<"a", NL>>}
                                        ELSE {<<>>})
    /\ patch \in SeqsOf(ContentLines, 0, MaxBody)
    /\ diff_content = TextOf(patch)
    /\ current_content = <<>>
    /\ current_lines = <<>>
    /\ hunks = <<>>
    /\ new_lines = <<>>
    /\ k = 0
    /\ temp_files = 0
    /\ result = NoResult
    /\ trail = <<>>
    /\ ToolsIdle

\* os.makedirs(os.path.dirname(os.path.abspath(file_path)), exist_ok=True)
MakeDirs ==
    /\ pc = "write_file"
    /\ \/ /\ pc' = "check"
          /\ UNCHANGED <<result, trail>>
       \/ \* the directory cannot be made: nothing catches the OSError
          /\ pc' = "done"
          /\ result' = Raised("OSError")
          /\ trail' = Append(trail, "makedirs_failed")
    /\ UNCHANGED <<file_exists, file_content, diff_content, patch,
                   current_content, current_lines, hunks, new_lines, k,
                   temp_files>>
    /\ UNCHANGED tool_vars

\* IsGitDiff with every content that begins with '@@' taken for a diff.
IsGitDiffAnyHunkMarker(content) ==
    \/ StartsWith(content, DiffGitPrefix)
    \/ StartsWith(content, <<"-", "-", "-">>)
    \/ StartsWith(content, <<"+", "+", "+">>)
    \/ StartsWith(content, <<"@", "@">>)

\* The condition of lines 78-81.
IsGitDiff(content) ==
    \/ StartsWith(content, DiffGitPrefix)
    \/ StartsWith(content, <<"-", "-", "-">>)
    \/ StartsWith(content, <<"+", "+", "+">>)
    \/ HunkHeaderMatch(content).matched

\* Lines 78-87: the call of _apply_diff, or the normal file write.
WriteFile ==
    /\ pc = "check"
    /\ IF IsGitDiff(diff_content)
       THEN /\ pc' = "start"
            /\ trail' = Append(trail, "dispatched")
            /\ UNCHANGED <<file_exists, file_content, result>>
       ELSE /\ pc' = "done"
            /\ \/ /\ file_exists' = TRUE
                  /\ file_content' = diff_content
                  /\ result' = ReturnedNone
                  /\ trail' = Append(trail, "overwritten")
               \/ \* open(file_path, 'w') raises: the file is as it was
                  /\ result' = Raised("OSError")
                  /\ trail' = Append(trail, "overwrite_failed")
                  /\ UNCHANGED <<file_exists, file_content>>
               \/ \* file.write raises after open truncated the file
                  /\ file_exists' = TRUE
                  /\ file_content' = <<>>
                  /\ result' = Raised("OSError")
                  /\ trail' = Append(trail, "overwrite_failed")
    /\ UNCHANGED <<diff_content, patch, current_content, current_lines, hunks,
                   new_lines, k, temp_files>>
    /\ UNCHANGED tool_vars

NextWrite == MakeDirs \/ WriteFile \/ Next

SpecWrite == InitWrite /\ [][NextWrite]_vars

(***************************************************************************)
(* shell_executor of src/tools/shell.py. A regular expression is a tree:   *)
(* a literal string, a character of a set, any character but the newline,  *)
(* a sequence, an alternation, and the repetitions ?, * and +.             *)
(***************************************************************************)
Lit(chars) == <<"lit", chars>>
In(set) == <<"in", set>>
AnyChar == <<"any">>
Cat(items) == <<"cat", items>>
Alt(items) == <<"alt", items>>
Opt(item) == <<"opt", item>>
Star(item) == <<"star", item>>
Plus(item) == <<"plus", item>>

\* \s and [A-Z]
Space == {" ", "\t", "\n", "\r", "\f"}
Upper == {"A", "B", "C", "D", "E", "F", "G", "H", "I", "J", "K", "L", "M",
          "N", "O", "P", "Q", "R", "S", "T", "U", "V", "W", "X", "Y", "Z"}

\* The indices at which a match of the tree that begins at index i of s
\* may end (the index after its last character).
RECURSIVE Ends(_, _, _), SeqEnds(_, _, _), Closure(_, _, _)
Ends(node, s, i) ==
    CASE node[1] = "lit" ->
           IF LitAt(s, i, node[2]) THEN {i + Len(node[2])} ELSE {}
      [] node[1] = "in" ->
           IF i <= Len(s) /\ s[i] \in node[2] THEN {i + 1} ELSE {}
      [] node[1] = "any" ->
           IF i <= Len(s) /\ s[i] # NL THEN {i + 1} ELSE {}
      [] node[1] = "cat" -> SeqEnds(node[2], s, {i})
      [] node[1] = "alt" ->
           UNION {Ends(node[2][n], s, i) : n \in 1..Len(node[2])}
      [] node[1] = "opt" -> {i} \cup Ends(node[2], s, i)
      [] node[1] = "star" -> Closure(node[2], s, {i})
      [] node[1] = "plus" -> Closure(node[2], s, Ends(node[2], s, i))

SeqEnds(items, s, from) ==
    IF Len(items) = 0 THEN from
    ELSE SeqEnds(Tail(items), s, UNION {Ends(Head(items), s, j) : j \in from})

Closure(node, s, from) ==
    LET more == from \cup UNION {Ends(node, s, j) : j \in from}
    IN  IF more = from THEN from ELSE Closure(node, s, more)

\* re.search(pattern, string) finds a match.
ReSearch(pattern, string) ==
    \E i \in 1..(Len(string) + 1) : Ends(pattern, string, i) # {}

\* line 23: r"rm\s+(-rf?|--recursive)\s+/"
Pattern23 ==
    Cat(<<Lit(<<"r", "m">>), Plus(In(Space)), Cat(<<Lit(<<"-">>),
      Alt(<<Cat(<<Lit(<<"r">>), Opt(Lit(<<"f">>))>>), Lit(<<"-", "r", "e",
      "c", "u", "r", "s", "i", "v", "e">>)>>)>>), Plus(In(Space)),
      Lit(<<"/">>)>>)

\* line 24: r"dd\s+.*of=/dev/"
Pattern24 ==
    Cat(<<Lit(<<"d", "d">>), Plus(In(Space)), Star(AnyChar), Lit(<<"o", "f",
      "=", "/", "d", "e", "v", "/">>)>>)

\* line 25: r">\s*/etc/"
Pattern25 ==
    Cat(<<Lit(<<">">>), Star(In(Space)), Lit(<<"/", "e", "t", "c", "/">>)>>)

\* line 26: r"chmod\s+.*777"
Pattern26 ==
    Cat(<<Lit(<<"c", "h", "m", "o", "d">>), Plus(In(Space)), Star(AnyChar),
      Lit(<<"7", "7", "7">>)>>)

\* line 27: r"mkfs"
Pattern27 ==
    Lit(<<"m", "k", "f", "s">>)

\* line 28: r"mv\s+.*(/etc|/usr|/bin|/sbin|/lib|/boot|/dev|/proc)"
Pattern28 ==
    Cat(<<Lit(<<"m", "v">>), Plus(In(Space)), Star(AnyChar),
      Cat(<<Lit(<<"/">>), Alt(<<Lit(<<"e", "t", "c">>), Lit(<<"u", "s",
      "r">>), Lit(<<"b", "i", "n">>), Lit(<<"s", "b", "i", "n">>),
      Lit(<<"l", "i", "b">>), Lit(<<"b", "o", "o", "t">>), Lit(<<"d", "e",
      "v">>), Lit(<<"p", "r", "o", "c">>)>>)>>)>>)

\* line 29: r"wget.*(sh|bash|zsh)\s+-\s*\|.*(sh|bash|zsh)"
Pattern29 ==
    Cat(<<Lit(<<"w", "g", "e", "t">>), Star(AnyChar), Alt(<<Lit(<<"s",
      "h">>), Lit(<<"b", "a", "s", "h">>), Lit(<<"z", "s", "h">>)>>),
      Plus(In(Space)), Lit(<<"-">>), Star(In(Space)), Lit(<<"|">>),
      Star(AnyChar), Alt(<<Lit(<<"s", "h">>), Lit(<<"b", "a", "s", "h">>),
      Lit(<<"z", "s", "h">>)>>)>>)

\* line 30: r"curl.*(sh|bash|zsh)\s+-\s*\|.*(sh|bash|zsh)"
Pattern30 ==
    Cat(<<Lit(<<"c", "u", "r", "l">>), Star(AnyChar), Alt(<<Lit(<<"s",
      "h">>), Lit(<<"b", "a", "s", "h">>), Lit(<<"z", "s", "h">>)>>),
      Plus(In(Space)), Lit(<<"-">>), Star(In(Space)), Lit(<<"|">>),
      Star(AnyChar), Alt(<<Lit(<<"s", "h">>), Lit(<<"b", "a", "s", "h">>),
      Lit(<<"z", "s", "h">>)>>)>>)

\* line 32: r"rmdir\s+/s\s+/q\s+[A-Z]:\\Windows"
Pattern32 ==
    Cat(<<Lit(<<"r", "m", "d", "i", "r">>), Plus(In(Space)), Lit(<<"/",
      "s">>), Plus(In(Space)), Lit(<<"/", "q">>), Plus(In(Space)),
      In(Upper), Lit(<<":", "\\", "W", "i", "n", "d", "o", "w", "s">>)>>)

\* line 33: r"del\s+/[fqs].*[A-Z]:\\Windows"
Pattern33 ==
    Cat(<<Lit(<<"d", "e", "l">>), Plus(In(Space)), Lit(<<"/">>), In({"f",
      "q", "s"}), Star(AnyChar), In(Upper), Lit(<<":", "\\", "W", "i", "n",
      "d", "o", "w", "s">>)>>)

\* line 34: r"format\s+[A-Z]:"
Pattern34 ==
    Cat(<<Lit(<<"f", "o", "r", "m", "a", "t">>), Plus(In(Space)), In(Upper),
      Lit(<<":">>)>>)

\* line 35: r"rd\s+/s\s+/q\s+[A-Z]:\\Windows"
Pattern35 ==
    Cat(<<Lit(<<"r", "d">>), Plus(In(Space)), Lit(<<"/", "s">>),
      Plus(In(Space)), Lit(<<"/", "q">>), Plus(In(Space)), In(Upper),
      Lit(<<":", "\\", "W", "i", "n", "d", "o", "w", "s">>)>>)

\* line 36: r"del\s+/[fqs].*system32"
Pattern36 ==
    Cat(<<Lit(<<"d", "e", "l">>), Plus(In(Space)), Lit(<<"/">>), In({"f",
      "q", "s"}), Star(AnyChar), Lit(<<"s", "y", "s", "t", "e", "m", "3",
      "2">>)>>)

\* line 37: r"move\s+.*\\Windows\\"
Pattern37 ==
    Cat(<<Lit(<<"m", "o", "v", "e">>), Plus(In(Space)), Star(AnyChar),
      Lit(<<"\\", "W", "i", "n", "d", "o", "w", "s", "\\">>)>>)

\* line 38: r"reg\s+delete\s+HKLM"
Pattern38 ==
    Cat(<<Lit(<<"r", "e", "g">>), Plus(In(Space)), Lit(<<"d", "e", "l", "e",
      "t", "e">>), Plus(In(Space)), Lit(<<"H", "K", "L", "M">>)>>)

\* line 39: r"reg\s+delete\s+HKCU"
Pattern39 ==
    Cat(<<Lit(<<"r", "e", "g">>), Plus(In(Space)), Lit(<<"d", "e", "l", "e",
      "t", "e">>), Plus(In(Space)), Lit(<<"H", "K", "C", "U">>)>>)

\* line 40: r"powershell\s+.*-ExecutionPolicy\s+Bypass"
Pattern40 ==
    Cat(<<Lit(<<"p", "o", "w", "e", "r", "s", "h", "e", "l", "l">>),
      Plus(In(Space)), Star(AnyChar), Lit(<<"-", "E", "x", "e", "c", "u",
      "t", "i", "o", "n", "P", "o", "l", "i", "c", "y">>), Plus(In(Space)),
      Lit(<<"B", "y", "p", "a", "s", "s">>)>>)

\* line 41: r"powershell\s+.*Invoke-Expression.*Net.WebClient"
Pattern41 ==
    Cat(<<Lit(<<"p", "o", "w", "e", "r", "s", "h", "e", "l", "l">>),
      Plus(In(Space)), Star(AnyChar), Lit(<<"I", "n", "v", "o", "k", "e",
      "-", "E", "x", "p", "r", "e", "s", "s", "i", "o", "n">>),
      Star(AnyChar), Lit(<<"N", "e", "t">>), AnyChar, Lit(<<"W", "e", "b",
      "C", "l", "i", "e", "n", "t">>)>>)

\* line 42: r"powershell\s+.*IEX.*Net.WebClient"
Pattern42 ==
    Cat(<<Lit(<<"p", "o", "w", "e", "r", "s", "h", "e", "l", "l">>),
      Plus(In(Space)), Star(AnyChar), Lit(<<"I", "E", "X">>), Star(AnyChar),
      Lit(<<"N", "e", "t">>), AnyChar, Lit(<<"W", "e", "b", "C", "l", "i",
      "e", "n", "t">>)>>)

\* line 43: r"bitsadmin\s+/transfer.*powershell"
Pattern43 ==
    Cat(<<Lit(<<"b", "i", "t", "s", "a", "d", "m", "i", "n">>),
      Plus(In(Space)), Lit(<<"/", "t", "r", "a", "n", "s", "f", "e", "r">>),
      Star(AnyChar), Lit(<<"p", "o", "w", "e", "r", "s", "h", "e", "l",
      "l">>)>>)

\* line 44: r"certutil\s+-urlcache\s+-split\s+-f"
Pattern44 ==
    Cat(<<Lit(<<"c", "e", "r", "t", "u", "t", "i", "l">>), Plus(In(Space)),
      Lit(<<"-", "u", "r", "l", "c", "a", "c", "h", "e">>), Plus(In(Space)),
      Lit(<<"-", "s", "p", "l", "i", "t">>), Plus(In(Space)), Lit(<<"-",
      "f">>)>>)

\* line 45: r"wmic\s+product\s+where.*call\s+uninstall"
Pattern45 ==
    Cat(<<Lit(<<"w", "m", "i", "c">>), Plus(In(Space)), Lit(<<"p", "r", "o",
      "d", "u", "c", "t">>), Plus(In(Space)), Lit(<<"w", "h", "e", "r",
      "e">>), Star(AnyChar), Lit(<<"c", "a", "l", "l">>), Plus(In(Space)),
      Lit(<<"u", "n", "i", "n", "s", "t", "a", "l", "l">>)>>)

\* line 46: r"net\s+user\s+.*\s+/add"
Pattern46 ==
    Cat(<<Lit(<<"n", "e", "t">>), Plus(In(Space)), Lit(<<"u", "s", "e",
      "r">>), Plus(In(Space)), Star(AnyChar), Plus(In(Space)), Lit(<<"/",
      "a", "d", "d">>)>>)

\* line 47: r"net\s+localgroup\s+administrators\s+.*\s+/add"
Pattern47 ==
    Cat(<<Lit(<<"n", "e", "t">>), Plus(In(Space)), Lit(<<"l", "o", "c", "a",
      "l", "g", "r", "o", "u", "p">>), Plus(In(Space)), Lit(<<"a", "d", "m",
      "i", "n", "i", "s", "t", "r", "a", "t", "o", "r", "s">>),
      Plus(In(Space)), Star(AnyChar), Plus(In(Space)), Lit(<<"/", "a", "d",
      "d">>)>>)

\* line 48: r"bcdedit\s+/set\s+.*\s+0"
Pattern48 ==
    Cat(<<Lit(<<"b", "c", "d", "e", "d", "i", "t">>), Plus(In(Space)),
      Lit(<<"/", "s", "e", "t">>), Plus(In(Space)), Star(AnyChar),
      Plus(In(Space)), Lit(<<"0">>)>>)

\* line 49: r"schtasks\s+/create.*cmd"
Pattern49 ==
    Cat(<<Lit(<<"s", "c", "h", "t", "a", "s", "k", "s">>), Plus(In(Space)),
      Lit(<<"/", "c", "r", "e", "a", "t", "e">>), Star(AnyChar), Lit(<<"c",
      "m", "d">>)>>)

\* The list of lines 22-50.
DefaultPatterns ==
    <<Pattern23, Pattern24, Pattern25, Pattern26, Pattern27, Pattern28,
      Pattern29, Pattern30, Pattern32, Pattern33, Pattern34, Pattern35,
      Pattern36, Pattern37, Pattern38, Pattern39, Pattern40, Pattern41,
      Pattern42, Pattern43, Pattern44, Pattern45, Pattern46, Pattern47,
      Pattern48, Pattern49>>

\* The commands of the calls.
Commands ==
    { <<"l", "s">>,
      <<"e", "c", "h", "o", " ", "h", "i">>,
      <<"m", "k", "f", "s">>,
      <<"r", "m", " ", "-", "r", "f", " ", "/">>,
      <<"r", "m", " ", "-", "r", " ", "/", "t", "m", "p">>,
      <<"r", "m", " ", "f">>,
      <<"c", "h", "m", "o", "d", " ", "7", "7", "7", " ", "f">>,
      <<"f", "o", "r", "m", "a", "t", " ", "C", ":">> }

\* The dangerous_patterns argument: left out (None), the empty list, or a
\* list of the caller's own.
PatternsNone == [given |-> FALSE, list |-> <<>>]
PatternsList(list) == [given |-> TRUE, list |-> list]

PatternArgs ==
    { PatternsNone,
      PatternsList(<<>>),
      PatternsList(<<Lit(<<"l", "s">>)>>),
      PatternsList(<<Lit(<<"s", "u", "d", "o">>), Cat(<<Lit(<<"r", "m">>),
                                                       Plus(In(Space))>>)>>) }

InitShell ==
    /\ pc = "shell_executor"
    /\ command \in Commands
    /\ dangerous_patterns \in PatternArgs
    /\ process = <<>>
    /\ result = NoResult
    /\ trail = <<>>
    /\ PatchIdle
    /\ PathIdle /\ StateIdle /\ FramesIdle

\* Lines 21-50: the default list when the argument is None.
DefaultWhenNone ==
    /\ pc = "shell_executor"
    /\ dangerous_patterns' = IF dangerous_patterns.given
                             THEN dangerous_patterns
                             ELSE PatternsList(DefaultPatterns)
    /\ pc' = "check"
    /\ UNCHANGED <<command, process, result, trail>>
    /\ UNCHANGED <<patch_vars, path_vars, state_vars, frame_vars>>

\* Lines 53-55: the loop over the list; a match raises.
CheckPatterns ==
    /\ pc = "check"
    /\ IF \E n \in 1..Len(dangerous_patterns.list) :
             ReSearch(dangerous_patterns.list[n], command)
       THEN /\ pc' = "done"
            /\ result' = Raised("Exception")
            /\ trail' = Append(trail, "refused")
       ELSE /\ pc' = "popen"
            /\ trail' = Append(trail, "checked")
            /\ UNCHANGED result
    /\ UNCHANGED <<command, dangerous_patterns, process>>
    /\ UNCHANGED <<patch_vars, path_vars, state_vars, frame_vars>>

\* Lines 58-76: the process is started and its exit code reported.
StartProcess ==
    /\ pc = "popen"
    /\ \/ /\ process' = Append(process, command)
          /\ \E code \in {"0", "1"} :
                result' = Returned(<<"Exit code: ", code>>)
          /\ trail' = Append(trail, "started")
       \/ \* subprocess.Popen raises: no process
          /\ result' = Raised("OSError")
          /\ trail' = Append(trail, "popen_failed")
          /\ UNCHANGED process
    /\ pc' = "done"
    /\ UNCHANGED <<command, dangerous_patterns>>
    /\ UNCHANGED <<patch_vars, path_vars, state_vars, frame_vars>>

NextShell == DefaultWhenNone \/ CheckPatterns \/ StartProcess

SpecShell == InitShell /\ [][NextShell]_vars

(***************************************************************************)
(* is_safe_path of src/tools/utils.py, with os.path.abspath as posixpath    *)
(* computes it: join with the working directory, then normpath.            *)
(***************************************************************************)
\* str.split('/'): the pieces between the slashes, empty ones included.
RECURSIVE SplitSlash(_, _)
SplitSlash(s, piece) ==
    IF s = <<>> THEN <<piece>>
    ELSE IF Head(s) = "/" THEN <<piece>> \o SplitSlash(Tail(s), <<>>)
    ELSE SplitSlash(Tail(s), Append(piece, Head(s)))

\* '/'.join(comps)
RECURSIVE JoinSlash(_)
JoinSlash(comps) ==
    IF comps = <<>> THEN <<>>
    ELSE IF Len(comps) = 1 THEN comps[1]
    ELSE comps[1] \o <<"/">> \o JoinSlash(Tail(comps))

Dot == <<".">>
DotDot == <<".", ".">>

\* The loop of posixpath.normpath over the components.
RECURSIVE NormComps(_, _, _)
NormComps(comps, new_comps, initial_slashes) ==
    IF comps = <<>> THEN new_comps
    ELSE LET comp == Head(comps)
             next == IF comp \in {<<>>, Dot} THEN new_comps
                     ELSE IF \/ comp # DotDot
                             \/ (initial_slashes = 0 /\ new_comps = <<>>)
                             \/ (new_comps # <<>>
                                   /\ new_comps[Len(new_comps)] = DotDot)
                          THEN Append(new_comps, comp)
                     ELSE IF new_comps # <<>>
                          THEN SubSeq(new_comps, 1, Len(new_comps) - 1)
                     ELSE new_comps
         IN  NormComps(Tail(comps), next, initial_slashes)

\* posixpath.normpath(p)
NormPath(p) ==
    IF p = <<>> THEN Dot
    ELSE LET initial_slashes ==
                 IF ~StartsWith(p, <<"/">>) THEN 0
                 ELSE IF StartsWith(p, <<"/", "/">>)
                         /\ ~StartsWith(p, <<"/", "/", "/">>) THEN 2
                 ELSE 1
             joined == JoinSlash(NormComps(SplitSlash(p, <<>>), <<>>,
                                           initial_slashes))
             out == [i \in 1..initial_slashes |-> "/"] \o joined
         IN  IF out = <<>> THEN Dot ELSE out

\* posixpath.join(a, b)
PathJoin(a, b) ==
    IF StartsWith(b, <<"/">>) THEN b
    ELSE IF a = <<>> \/ EndsWith(a, <<"/">>) THEN a \o b
    ELSE a \o <<"/">> \o b

\* os.path.abspath(p) in the working directory dir.
AbsPath(p, dir) ==
    NormPath(IF StartsWith(p, <<"/">>) THEN p ELSE PathJoin(dir, p))

\* base_dir left out.
BaseNone == [given |-> FALSE, dir |-> <<>>]
BaseDir(dir) == [given |-> TRUE, dir |-> dir]

\* All paths of at most MaxLen + 1 characters over 'a', '.' and '/'.
PathArgs == SeqsOf({"a", ".", "/"}, 0, MaxLen + 1)

BaseArgs ==
    {BaseNone} \cup
    {BaseDir(d) : d \in {<<"/">>, <<"/", "a">>, <<"/", "a", "/">>, <<"a">>,
                         <<"/", "a", "/", "a">>}}

WorkingDirs == {<<"/">>, <<"/", "a">>}

InitPath ==
    /\ pc = "is_safe_path"
    /\ path \in PathArgs
    /\ base_dir \in BaseArgs
    /\ cwd \in WorkingDirs
    /\ result = NoResult
    /\ trail = <<>>
    /\ PatchIdle
    /\ ShellIdle /\ StateIdle /\ FramesIdle

\* Lines 6-7: the working directory when base_dir is None.
DefaultBase ==
    /\ pc = "is_safe_path"
    /\ base_dir' = IF base_dir.given THEN base_dir ELSE BaseDir(cwd)
    /\ pc' = "abspath"
    /\ UNCHANGED <<path, cwd, result, trail>>
    /\ UNCHANGED <<patch_vars, shell_vars, state_vars, frame_vars>>

\* Lines 10-11: both paths made absolute.
Absolutize ==
    /\ pc = "abspath"
    /\ path' = AbsPath(path, cwd)
    /\ base_dir' = BaseDir(AbsPath(base_dir.dir, cwd))
    /\ pc' = "compare"
    /\ UNCHANGED <<cwd, result, trail>>
    /\ UNCHANGED <<patch_vars, shell_vars, state_vars, frame_vars>>

\* Line 14: return path.startswith(base_dir)
ComparePrefix ==
    /\ pc = "compare"
    /\ result' = Returned(StartsWith(path, base_dir.dir))
    /\ pc' = "done"
    /\ UNCHANGED <<path, base_dir, cwd, trail>>
    /\ UNCHANGED <<patch_vars, shell_vars, state_vars, frame_vars>>

NextPath == DefaultBase \/ Absolutize \/ ComparePrefix

SpecPath == InitPath /\ [][NextPath]_vars

(***************************************************************************)
(* ArchitectAgentState (src/agents/ArchitectureDesigner/context.py): the   *)
(* progress field and the two methods that assign to it.  A float is its   *)
(* number of tenths, or NaN; last_updated_at is the reading of the clock   *)
(* at which the field was last assigned, 0 standing for the value given    *)
(* at construction.                                                        *)
(***************************************************************************)
Num(t) == [nan |-> FALSE, tenths |-> t]
NaN == [nan |-> TRUE, tenths |-> 0]

\* Line 98: the literals 0.0 and 1.0; line 128: 1.0.
Zero == Num(0)
One == Num(10)

\* a < b on floats: False as soon as one side is NaN.
Less(a, b) == ~a.nan /\ ~b.nan /\ a.tenths < b.tenths

\* min(a, b) and max(a, b): the first argument is kept unless the second
\* compares strictly below (above) it.
PyMin(a, b) == IF Less(b, a) THEN b ELSE a
PyMax(a, b) == IF Less(a, b) THEN b ELSE a

\* Line 98: max(0.0, min(1.0, value)).
Clamp(value) == PyMax(Zero, PyMin(One, value))

\* Lines 81-88: the stages of the default_factory, each at 0.0.
Stages ==
    {"requirements_gathering", "planning", "research", "component_design",
     "architecture_design", "review"}

DefaultProgress == [stage \in Stages |-> Zero]

\* A dict held by the progress field.
Mapping(items) == [kind |-> "dict", items |-> items]

\* Lines 48 and 81: the class is a dataclasses.dataclass and the default of
\* progress is the object pydantic's Field() returns, so a state built
\* without a progress argument holds that object, not the dict of lines
\* 82-87: dataclasses never calls a default_factory that is not carried by
\* a dataclasses.field.
FieldInfo == [kind |-> "FieldInfo", items |-> <<>>]

\* The stage and value arguments of update_progress, and the architecture
\* argument of finalize_architecture.
StageArgs == Stages \cup {"deployment"}
ValueArgs == {Num(0 - 5), Num(5), Num(15), NaN}
Architectures == {"A", "B"}

\* The progress a state is built with: the default of the field, or a dict
\* the caller passes (from_dict, lines 153-167, passes the one of the saved
\* state): the six stages, or the stages of a state saved without
\* architecture_design.
BuiltWith ==
    {FieldInfo, Mapping(DefaultProgress),
     Mapping([stage \in Stages \ {"architecture_design"} |-> Zero])}

\* The state as it was built, and the call that has just ended with the
\* progress and last_updated_at it found.
Built(p) == [op |-> "__init__", progress |-> p]
Called(op, stage, value) ==
    [op |-> op, stage |-> stage, value |-> value,
     progress |-> progress, last_updated_at |-> last_updated_at]

InitState ==
    /\ pc = "ArchitectAgentState"
    /\ progress \in BuiltWith
    /\ last_updated_at = 0
    /\ final_architecture = <<>>
    /\ clock = 0
    /\ result = NoResult
    /\ trail = <<Built(progress)>>
    /\ PatchIdle
    /\ ShellIdle /\ PathIdle /\ FramesIdle

\* Lines 95-99.  stage in self.progress raises TypeError when progress is
\* not a container.
UpdateProgress(stage, value) ==
    /\ pc = "ArchitectAgentState"
    /\ clock < MaxCalls
    /\ clock' = clock + 1
    /\ trail' = <<trail[1], Called("update_progress", stage, value)>>
    /\ IF progress.kind # "dict"
       THEN /\ result' = Raised("TypeError")
            /\ UNCHANGED <<progress, last_updated_at>>
       ELSE /\ result' = ReturnedNone
            /\ IF stage \in DOMAIN progress.items
               THEN /\ progress' =
                         Mapping([progress.items EXCEPT ![stage] = Clamp(value)])
                    /\ last_updated_at' = clock'
               ELSE UNCHANGED <<progress, last_updated_at>>
    /\ UNCHANGED <<pc, final_architecture>>
    /\ UNCHANGED <<patch_vars, shell_vars, path_vars, frame_vars>>

\* Lines 125-129.  The item assignment of line 128 raises TypeError when
\* progress is not a container, after line 127 has assigned the
\* architecture; on a dict it stores the key whether or not it is present.
FinalizeArchitecture(architecture) ==
    /\ pc = "ArchitectAgentState"
    /\ clock < MaxCalls
    /\ clock' = clock + 1
    /\ trail' = <<trail[1], Called("finalize_architecture", "", One)>>
    /\ final_architecture' = <<architecture>>
    /\ IF progress.kind # "dict"
       THEN /\ result' = Raised("TypeError")
            /\ UNCHANGED <<progress, last_updated_at>>
       ELSE /\ result' = ReturnedNone
            /\ progress' =
                 Mapping([stage \in DOMAIN progress.items
                                      \cup {"architecture_design"} |->
                            IF stage = "architecture_design"
                            THEN One
                            ELSE progress.items[stage]])
            /\ last_updated_at' = clock'
    /\ UNCHANGED pc
    /\ UNCHANGED <<patch_vars, shell_vars, path_vars, frame_vars>>

CallUpdateProgress ==
    \E stage \in StageArgs, value \in ValueArgs : UpdateProgress(stage, value)

CallFinalizeArchitecture ==
    \E architecture \in Architectures : FinalizeArchitecture(architecture)

NextState == CallUpdateProgress \/ CallFinalizeArchitecture

SpecState == InitState /\ [][NextState]_vars

(***************************************************************************)
(* Claims about _parse_unified_diff and _extract_hunks.                    *)
(***************************************************************************)
\* The lines a hunk body leaves in the patched file: its context and added
\* lines, in order.
RECURSIVE NewSide(_)
NewSide(body) ==
    IF body = <<>> THEN <<>>
    ELSE (IF Head(body)[1] = "-" THEN <<>> ELSE <<Head(body)[2]>>)
         \o NewSide(Tail(body))

\* The file a well-formed patch describes: the original from line pos on,
\* with the original lines of every hunk replaced by the hunk's new side.
RECURSIVE TargetFrom(_, _, _)
TargetFrom(orig, p, pos) ==
    IF p = <<>> THEN SubSeq(orig, pos, Len(orig))
    ELSE SubSeq(orig, pos, Head(p).old_start - 1) \o NewSide(Head(p).body)
         \o TargetFrom(orig, Tail(p), Head(p).old_start + Head(p).old_count)

Target(orig, p) == TargetFrom(orig, p, 1)

ExplicitCounts(p) == \A i \in 1..Len(p) : p[i].form = "full"

\* C1: for a well-formed unified diff with explicit counts in every hunk
\* header, _parse_unified_diff returns exactly the target sequence, also
\* when an earlier hunk of the patch changes the number of lines.
C1_ReturnsTarget ==
    (pc = "done" /\ ExplicitCounts(patch))
        => result = Target(current_lines, patch)

\* The at most r lines of lst from zero-based index i on.
Window(lst, i, r) == SubSeq(lst, i + 1, Min(i + r, Len(lst)))

\* C7: when a hunk of a well-formed patch is about to be applied in the
\* last-to-first loop, the removed_count lines at index new_start-1 of the
\* working sequence are the original lines old_start .. old_start+old_count-1
\* of that hunk.
C7_StartStillValid ==
    (pc = "loop" /\ k >= 1 /\ ExplicitCounts(patch))
        => Window(new_lines, hunks[k][1] - 1, hunks[k][2])
             = SubSeq(current_lines, patch[k].old_start,
                      patch[k].old_start + patch[k].old_count - 1)

\* C9: a hunk header with an omitted count begins a new hunk whose omitted
\* count is 1, and the lines after it belong to that hunk: every hunk of
\* the patch is extracted with the new_start and old_count of its header
\* and the context and added lines of its body.
C9_OmittedCountIsOne ==
    pc # "parse" =>
        /\ Len(hunks) = Len(patch)
        /\ \A i \in 1..Len(patch) :
             hunks[i] = <<patch[i].new_start, patch[i].old_count,
                          NewSide(patch[i].body)>>

\* Every hunk whose header writes both counts is extracted with the
\* new_start and old_count of its header and the new side of its body.
ExplicitHeadersExtracted ==
    (pc # "parse" /\ ExplicitCounts(patch)) =>
        /\ Len(hunks) = Len(patch)
        /\ \A i \in 1..Len(patch) :
             hunks[i] = <<patch[i].new_start, patch[i].old_count,
                          NewSide(patch[i].body)>>

\* One-hunk patches are applied as the patch describes.
OneHunkReturnsTarget ==
    (pc = "done" /\ ExplicitCounts(patch) /\ Len(patch) = 1)
        => result = Target(current_lines, patch)

InRange(lst, hunk) == hunk[1] >= 1 /\ hunk[1] - 1 + hunk[2] <= Len(lst)

\* C8: a single hunk (s, r, L) with s >= 1 and s-1+r <= len(current_lines)
\* turns current_lines into current_lines[0 .. s-2] ++ L ++
\* current_lines[s-1+r ..]; an addition after line 1 of [a,b,c] gives
\* [a,x,b,c] and a deletion at line 2 gives [a,c].
C8_SingleHunkSplice ==
    /\ (pc = "done" /\ Len(hunks) = 1 /\ InRange(current_lines, hunks[1]))
         => result = SubSeq(current_lines, 1, hunks[1][1] - 1) \o hunks[1][3]
                     \o SubSeq(current_lines, hunks[1][1] + hunks[1][2],
                               Len(current_lines))
    /\ (pc = "done" /\ current_lines = DistinctLines(3)
          /\ hunks = << <<1, 1, <<<<"a">>, <<"x">>>>>> >>)
         => result = <<<<"a">>, <<"x">>, <<"b">>, <<"c">>>>
    /\ (pc = "done" /\ current_lines = DistinctLines(3)
          /\ hunks = << <<2, 1, <<>>>> >>)
         => result = <<<<"a">>, <<"c">>>>

\* A hunk that deletes one line and inserts two has been applied inside
\* the sequence.
C8_Witness ==
    /\ pc = "done"
    /\ Len(hunks) = 1
    /\ InRange(current_lines, hunks[1])
    /\ hunks[1][2] = 1
    /\ Len(hunks[1][3]) = 2
    /\ hunks[1][1] = 2
    /\ Len(current_lines) = 3

FileOrder(lst, hs) == ApplyHunk(ApplyHunk(lst, hs[1]), hs[2])
ReverseOrder(lst, hs) == ApplyHunk(ApplyHunk(lst, hs[2]), hs[1])

\* Two hunks that insert only, the first at a line before the second.
TwoInsertions(hs) ==
    /\ Len(hs) = 2
    /\ hs[1][2] = 0 /\ hs[2][2] = 0
    /\ hs[1][3] # <<>> /\ hs[2][3] # <<>>
    /\ 1 <= hs[1][1] /\ hs[1][1] < hs[2][1]

\* No line the hunks insert occurs in lst.
FreshLines(lst, hs) ==
    \A i \in 1..Len(hs) : \A j \in 1..Len(hs[i][3]) : \A n \in 1..Len(lst) :
        hs[i][3][j] # lst[n]

\* C6 as stated: for every patch of two inserting hunks, file order and
\* reverse order give different results, and _parse_unified_diff returns
\* the reverse-order one.
C6_OrdersAlwaysDiffer ==
    (pc = "done" /\ TwoInsertions(hunks)) =>
        /\ FileOrder(current_lines, hunks) # ReverseOrder(current_lines, hunks)
        /\ result = ReverseOrder(current_lines, hunks)

\* C6 as amended: _parse_unified_diff returns the reverse-order result of
\* every patch of two inserting hunks; the file-order result differs from
\* it whenever the later hunk starts within the sequence and no inserted
\* line occurs in the original sequence.
C6_ReverseOrderResult ==
    (pc = "done" /\ TwoInsertions(hunks)) =>
        /\ result = ReverseOrder(current_lines, hunks)
        /\ (hunks[2][1] - 1 <= Len(current_lines)
              /\ FreshLines(current_lines, hunks))
             => FileOrder(current_lines, hunks)
                  # ReverseOrder(current_lines, hunks)

\* Two insertions of fresh lines within the sequence have been applied.
C6_Witness ==
    /\ pc = "done"
    /\ TwoInsertions(hunks)
    /\ hunks[2][1] - 1 <= Len(current_lines)
    /\ FreshLines(current_lines, hunks)
    /\ FileOrder(current_lines, hunks) # result

(***************************************************************************)
(* Claims about the dispatcher and the built-in applier.                   *)
(***************************************************************************)
\* C2: _apply_diff returns a string whatever fails: no exception of any of
\* its steps leaves it.
C2_AlwaysReturnsString == pc = "done" => ~result.raised

\* C3: in every call that returns without git apply having reported
\* success, the built-in applier has been invoked before the return.
C3_FallbackOnAnyFailure ==
    (pc = "done" /\ ~result.raised /\ ~Did("git_applied")) => Did("manual")

\* The index of the first occurrence of step in the trail.
FirstAt(step) == CHOOSE i \in 1..Len(trail) :
                    /\ trail[i] = step
                    /\ \A j \in 1..(i - 1) : trail[j] # step

\* What the invocation of the built-in applier returned.
ManualResult ==
    IF Did("manual_written") THEN ManualSuccess
    ELSE ManualError(IF Did("parse_failed") THEN "ValueError" ELSE "OSError")

C5_NoTempFileLeft == pc = "done" => temp_files = 0

HadNewline == EndsWith(current_content, <<NL>>)

\* The written content is the new lines joined by newlines plus one
\* newline if and only if the original content ended with one.
JoinedAsOriginalEnded ==
    file_content = Join(new_lines) \o (IF HadNewline THEN <<NL>> ELSE <<>>)

\* Without a trailing newline before, none after; with one before, exactly
\* one after.
SameTrailingNewline ==
    IF HadNewline
    THEN EndsWith(file_content, <<NL>>) /\ ~EndsWith(file_content, <<NL, NL>>)
    ELSE ~EndsWith(file_content, <<NL>>)

\* C10 as stated: the built-in applier writes the new lines joined by
\* newlines, with a trailing newline appended iff the original had one, so
\* that content without a trailing newline is written back without one
\* and content with one ends with exactly one.
C10_TrailingNewlineKept ==
    Did("manual_written") => (JoinedAsOriginalEnded /\ SameTrailingNewline)

\* The patched line list has two or more lines and its last line is empty.
EndsWithEmptyLine ==
    Len(new_lines) >= 2 /\ new_lines[Len(new_lines)] = <<>>

\* C10 as amended: the written content is the new lines joined by
\* newlines plus one newline iff the original content ended with one;
\* unless the patched line list has two or more lines and ends with an
\* empty line, content without a trailing newline is written back without
\* one and content with one ends with exactly one.
C10_NewlineAppendedAsOriginal ==
    Did("manual_written") =>
        /\ JoinedAsOriginalEnded
        /\ ~EndsWithEmptyLine => SameTrailingNewline

\* A patch that changed the lines of a file without a trailing newline
\* has been written.
C10_Witness ==
    /\ Did("manual_written")
    /\ current_content # <<>>
    /\ ~HadNewline
    /\ Len(new_lines) >= 2
    /\ new_lines # current_lines
    /\ ~EndsWithEmptyLine

\* No hunk of the patch has a header with both counts written out: no line
\* of the diff text matches the hunk-header grammar.
NoHeaderLine == \A i \in 1..Len(patch) : patch[i].form # "full"

\* C11: if the diff text yields no hunk, _parse_unified_diff returns a
\* sequence equal to current_lines and the built-in applier writes back
\* content with the same lines and the same trailing-newline flag as the
\* file had before the call.
C11_NoHunkNoChange ==
    NoHeaderLine =>
        /\ pc = "manual_write" => new_lines = current_lines
        /\ Did("manual_written") =>
             /\ new_lines = current_lines
             /\ SplitLines(file_content) = SplitLines(current_content)
             /\ EndsWith(file_content, <<NL>>) = EndsWith(current_content, <<NL>>)

\* A file of two lines, the second empty, has been written back under a
\* diff text that holds no hunk header.
C11_Witness ==
    /\ NoHeaderLine
    /\ Did("manual_written")
    /\ current_lines = <<<<"a">>, <<>>>>
    /\ HadNewline

\* A step of the call failed.
SomeFailure ==
    \E i \in 1..Len(trail) :
        trail[i] \in {"create_failed", "probe_failed", "tempfile_failed",
                      "stage_write_failed", "git_launch_failed", "manual_failed"}

\* The patch is one hunk that adds lines from line 1 on and removes none.
PureAddition ==
    /\ Len(patch) = 1
    /\ patch[1].old_count = 0
    /\ patch[1].new_start = 1
    /\ patch[1].body # <<>>
    /\ \A i \in 1..Len(patch[1].body) : patch[1].body[i][1] = "+"

\* C12: when file_path does not exist and diff_text does not start with
\* 'diff --git', an empty file exists at file_path before git is probed or
\* an applier runs; with a pure-addition fragment the call (no step of it
\* failing, the built-in applier doing the work) returns a success message
\* and the file's lines are the fragment's added lines in order.
C12_NewFileFromFragment ==
    /\ (pc # "start" /\ ~StartsWith(diff_content, DiffGitPrefix)
          /\ ~Did("create_failed")) => file_exists
    /\ (pc = "probe" /\ Did("create")) => file_content = <<>>
    /\ (pc = "done" /\ Did("create") /\ PureAddition /\ ~SomeFailure
          /\ ~Did("git_applied"))
         => /\ result = ManualSuccess
            /\ SplitLines(file_content) = NewSide(patch[1].body)

\* Past the first step of a call with a bare fragment the file exists, and
\* a file the call created is empty when git is probed.
CreatedBeforeProbe ==
    /\ (pc # "start" /\ ~StartsWith(diff_content, DiffGitPrefix)
          /\ ~Did("create_failed")) => file_exists
    /\ (pc = "probe" /\ Did("create")) => file_content = <<>>

\* C13: a returned success message naming git apply means git apply
\* exited with status zero, one naming the manual diff parser means the
\* built-in applier completed its write, and every other returned string
\* is an error string.
C13_MessageMatchesOutcome ==
    (pc = "done" /\ ~result.raised) =>
        /\ result = GitSuccess => (Did("git_applied") /\ ~Did("manual"))
        /\ result = ManualSuccess => (Did("manual_written") /\ ~Did("manual_failed"))
        /\ result \notin {GitSuccess, ManualSuccess} =>
             result \in {GitError(e) : e \in {"OSError"}}
                        \cup {ManualError(e) : e \in {"OSError", "ValueError"}}
        /\ SomeFailure => result \notin {GitSuccess, ManualSuccess}

\* The write of the built-in applier failed after git apply had rejected
\* the patch, and the call returned the applier's error string.
C13_Witness ==
    /\ pc = "done"
    /\ Did("git_rejected")
    /\ Did("manual_failed")
    /\ ~Did("parse_failed")
    /\ new_lines # <<>>
    /\ result = ManualError("OSError")

\* C14: when the probe finds no git (or git --version exits non-zero) it
\* raises nothing, the built-in applier is invoked directly, no temporary
\* file is created and git apply never runs.
C14_UnavailableGoesManual ==
    Did("git_unavailable") =>
        /\ ~result.raised
        /\ temp_files = 0
        /\ \A i \in 1..Len(trail) :
             trail[i] \notin {"staged", "tempfile_failed", "stage_write_failed",
                              "git_applied", "git_rejected", "git_launch_failed",
                              "unlinked"}
        /\ pc \in {"manual", "manual_parse", "manual_write", "done"}
        /\ pc = "done" => (Times("manual") = 1 /\ result = ManualResult)

\* A call in which git was not available has returned after the built-in
\* applier wrote the file.
C14_Witness ==
    /\ pc = "done"
    /\ Did("git_unavailable")
    /\ Did("manual_written")
    /\ result = ManualSuccess

\* C15: if a step of the built-in applier raises, _apply_diff_manually
\* returns an error string that holds the exception text, and no exception
\* leaves it.
C15_ManualFailureReturned ==
    Did("manual_failed") =>
        /\ ~result.raised
        /\ \E e \in {"OSError", "ValueError"} : result = ManualError(e)
        /\ Did("parse_failed") => result = ManualError("ValueError")
        /\ pc \in {"unlink", "done"}
        /\ ~Did("manual_written")

\* _parse_unified_diff raised inside the built-in applier.
C15_Witness ==
    /\ Did("parse_failed")
    /\ pc = "done"
    /\ result = ManualError("ValueError")

\* The positions in ls, in order, of the lines of the given kinds.
Positions(ls, kinds) ==
    SelectSeq([i \in 1..Len(ls) |-> i], LAMBDA i : ls[i].kind \in kinds)

\* The k-th line of ls of the given kinds and the lines after it up to the
\* next such line or the end of ls.
Segment(ls, kinds, n) ==
    LET H == Positions(ls, kinds)
    IN  SubSeq(ls, H[n], IF n < Len(H) THEN H[n + 1] - 1 ELSE Len(ls))

\* The i-th line of the diff stands after a hunk header.
InsideHunk(i) == \E j \in 1..(i - 1) : patch[j].kind \in {"header", "short"}

\* The extracted hunks are those of the diff text without any one line of
\* the given kinds that stands inside a hunk.
SkippedInsideHunk(kinds) ==
    pc # "parse" =>
        \A i \in 1..Len(patch) :
            (patch[i].kind \in kinds /\ InsideHunk(i))
                => hunks = ExtractHunks(TextOf(Without(patch, i)))

\* C16: inside a hunk a line beginning with '+++' is not an added line and
\* appends nothing to the hunk's lines, and a line beginning with '---' is
\* not a removed line: the hunks are those of the text without that line.
C16_FileHeaderLinesSkipped == SkippedInsideHunk({"plus3", "minus3"})

\* The '---' half on its own: a '---' line inside a hunk adds nothing.
MinusLinesSkipped == SkippedInsideHunk({"minus3"})

\* One hunk per line of the given kinds, in order: the n-th hunk has the
\* start and the count of the n-th such line and is the hunk extracted from
\* that line and the lines up to the next such line.
OneHunkPerHeader(kinds) ==
    LET H == Positions(patch, kinds)
    IN  /\ Len(hunks) = Len(H)
        /\ \A n \in 1..Len(H) :
             /\ hunks[n][1] = patch[H[n]].start
             /\ hunks[n][2] = patch[H[n]].count
             /\ <<hunks[n]>> = ExtractHunks(TextOf(Segment(patch, kinds, n)))

\* C17: _extract_hunks returns exactly one hunk per line that matches the
\* hunk-header grammar (counts written out or omitted), in order; the k-th
\* hunk has the new_start and old_count of the k-th header, its lines come
\* from the lines between that header and the next only, the last hunk is
\* emitted at the end of the input and the lines before the first header
\* are in no hunk.
C17_OneHunkPerHeaderLine ==
    pc # "parse" => OneHunkPerHeader({"header", "short"})

\* The same for the header lines with both counts written out.
ExplicitHeaderOneHunkEach ==
    pc # "parse" => OneHunkPerHeader({"header"})

\* The lines a hunk body puts on the new side: the text of its context and
\* added lines without the first character.
RECURSIVE KeptLines(_)
KeptLines(body) ==
    IF body = <<>> THEN <<>>
    ELSE (IF Head(body).kind = "del" THEN <<>> ELSE <<Tail(Head(body).text)>>)
         \o KeptLines(Tail(body))

\* The body of the n-th hunk: the lines after its header.
BodyAt(n) == Tail(Segment(patch, {"header"}, n))

PlainBody(body) ==
    \A j \in 1..Len(body) : body[j].kind \in {"add", "del", "ctx"}

\* C18: for a hunk body whose lines each begin with a space, one '+' or
\* one '-', the hunk's lines are the body lines that begin with a space or
\* '+', in order, each without its first character; the lines that begin
\* with '-' add nothing.
C18_LinesAreContextAndAdded ==
    pc # "parse" =>
        \A n \in 1..Len(Positions(patch, {"header"})) :
            PlainBody(BodyAt(n)) =>
                /\ n <= Len(hunks)
                /\ hunks[n][3] = KeptLines(BodyAt(n))

\* A hunk whose body holds a context, a removed and an added line has been
\* extracted.
C18_Witness ==
    /\ pc = "done"
    /\ Len(patch) = 4
    /\ patch[1].kind = "header"
    /\ <<patch[2].kind, patch[3].kind, patch[4].kind>> = <<"ctx", "del", "add">>
    /\ hunks = <<<<patch[1].start, patch[1].count, <<<<"a">>, <<"x">>>>>>>>

\* C19: a line that begins with '@@' and does not match the hunk-header
\* grammar raises nothing and starts no hunk: the hunks are those of the
\* diff without that line, and the call returns what it returns for the
\* diff without that line.
C19_UnmatchedMarkerSkipped ==
    \A i \in 1..Len(patch) :
        patch[i].kind = "junk" =>
            /\ pc # "parse" => hunks = ExtractHunks(TextOf(Without(patch, i)))
            /\ pc = "done" =>
                 result = ParseUnifiedDiff(current_lines, TextOf(Without(patch, i)))

\* A diff with such a line between the context line and the added line of
\* its one hunk has been applied.
C19_Witness ==
    /\ pc = "done"
    /\ Len(patch) = 4
    /\ <<patch[1].kind, patch[2].kind, patch[3].kind, patch[4].kind>>
         = <<"header", "ctx", "junk", "add">>
    /\ patch[1].start = 1
    /\ result = <<<<"a">>, <<"x">>>> \o Tail(current_lines)

\* C20: a hunk with new_start >= 1 whose range runs past the end of
\* current_lines raises nothing: it deletes min(removed_count,
\* max(0, len(current_lines) - (new_start - 1))) lines, and when
\* new_start - 1 lies beyond the end its lines are appended at the end in
\* order.
C20_OverrunClamped ==
    (pc = "done" /\ Len(patch) = 1 /\ patch[1].new_start >= 1) =>
        LET s     == patch[1].new_start
            r     == patch[1].old_count
            lines == NewSide(patch[1].body)
            n     == Len(current_lines)
            at    == Min(s - 1, n)
            del   == Min(r, Max(0, n - (s - 1)))
        IN  /\ result = SubSeq(current_lines, 1, at) \o lines
                          \o SubSeq(current_lines, at + del + 1, n)
            /\ Len(result) = n - del + Len(lines)
            /\ s - 1 >= n => result = current_lines \o lines

\* A hunk that starts at the last line and removes two has been applied:
\* one line was deleted.
C20_Witness ==
    /\ pc = "done"
    /\ Len(patch) = 1
    /\ current_lines # <<>>
    /\ patch[1].new_start = Len(current_lines)
    /\ patch[1].old_count = 2
    /\ patch[1].body # <<>>
    /\ Len(result) = Len(current_lines) - 1 + Len(patch[1].body)

\* A hunk that starts beyond the end and removes lines has been applied:
\* its lines stand at the end.
OverrunAppended ==
    /\ pc = "done"
    /\ Len(patch) = 1
    /\ patch[1].new_start > Len(current_lines) + 1
    /\ patch[1].old_count > 0
    /\ Len(patch[1].body) = 2
    /\ result = current_lines \o NewSide(patch[1].body)

\* lines stands in lst as one block of neighbouring elements.
OccursAsBlock(lines, lst) ==
    \E i \in 0..(Len(lst) - Len(lines)) :
        SubSeq(lst, i + 1, i + Len(lines)) = lines

\* C23: for every hunk, one whose new_start is 0 or exceeds the length of
\* the sequence included, the hunk's lines stand in the result as one
\* contiguous block in the order they have in the diff.
C23_LinesStayTogether ==
    (pc = "done" /\ Len(patch) = 1) =>
        OccursAsBlock(NewSide(patch[1].body), result)

\* The same for the hunks whose new_start is at least 1.
LinesStayTogetherFromOne ==
    (pc = "done" /\ Len(patch) = 1 /\ patch[1].new_start >= 1) =>
        OccursAsBlock(NewSide(patch[1].body), result)

\* C26: if the built-in applier returns an error string, the content of the
\* target file is what the applier read at its start: a failed application
\* leaves the file neither truncated nor partly written.
C26_FailureLeavesFileAlone ==
    (Did("manual_failed") /\ ~Did("read_failed")) =>
        file_content = current_content

\* A failed read or a failed parse leaves the file as it was read.
FailureBeforeWriteLeavesFileAlone ==
    (Did("parse_failed") /\ pc = "done") => file_content = current_content

\* The content begins with 'diff --git', '---', '+++' or a hunk header
\* with both counts.
BeginsLikeDiff ==
    /\ patch # <<>>
    /\ patch[1].kind \in {"git", "rule", "minus3", "plus3", "header"}

ShortHeaderOverwrites ==
    /\ pc = "done"
    /\ patch # <<>>
    /\ patch[1].kind = "short"
    /\ file_content = diff_content

\* C27: for a content with no hunk-header line, after write_file returns
\* the content of file_path equals content, a content that begins with
\* '---' or '+++' included.
C27_NonPatchContentWritten ==
    (pc = "done" /\ ~result.raised
       /\ \A i \in 1..Len(patch) : patch[i].kind \notin {"header", "short"})
        => (file_exists /\ file_content = diff_content)

\* C21: two invocations of the built-in applier that start from the same
\* file content with the same diff text write the same content and return
\* the same message, whatever invocations ran before them.
C21_SameInputSameOutput ==
    \A i, j \in 1..Len(trail) :
        (/\ trail[i].done /\ trail[j].done
         /\ trail[i].content = trail[j].content
         /\ trail[i].diff = trail[j].diff)
            => /\ trail[i].written = trail[j].written
               /\ trail[i].message = trail[j].message

\* The first and the third call found the same content and had the same
\* diff text, which changes the file; the call between them had another.
C21_Witness ==
    /\ Len(trail) = 3
    /\ trail[3].done
    /\ trail[1].content = trail[3].content
    /\ trail[1].diff = trail[3].diff
    /\ trail[2].diff # trail[1].diff
    /\ trail[2].diff # <<>>
    /\ trail[1].written # trail[1].content
    /\ trail[3].written = trail[1].written

\* What an invocation with this diff text leaves in a file of this content
\* when it runs alone.
Alone(content, diff) ==
    WrittenContent(content, ParseUnifiedDiff(SplitLines(content), diff))

BothDone == \A i \in Invocations : frames[i].pc = "done"

\* The position in trail of a step of an invocation.
StepAt(i, step) ==
    CHOOSE n \in 1..Len(trail) : trail[n] = [by |-> i, step |-> step]

\* C24: two invocations on different file paths, their steps interleaved in
\* any order, leave each file with the content its invocation would have
\* left had it run alone.
C24_DifferentPathsIndependent ==
    (BothDone /\ frames[1].file_path # frames[2].file_path) =>
        \A i \in Invocations :
            files[frames[i].file_path]
                = Alone(result[frames[i].file_path], frames[i].diff_content)

\* Invocation 1 has written 'g' between the read and the write of
\* invocation 2 on 'f', and both files have changed.
C24_Witness ==
    /\ BothDone
    /\ frames[1].file_path = "g"
    /\ frames[2].file_path = "f"
    /\ StepAt(2, "read") < StepAt(1, "write")
    /\ StepAt(1, "write") < StepAt(2, "write")
    /\ files["f"] # result["f"]
    /\ files["g"] # result["g"]

\* Both invocations read the file before either wrote it.
BothReadFirst ==
    \A i, j \in Invocations : StepAt(i, "read") < StepAt(j, "write")

\* The invocation that wrote last.
LaterWriter ==
    CHOOSE i \in Invocations :
        \A j \in Invocations : StepAt(j, "write") <= StepAt(i, "write")

\* C25: two invocations on the same file path are not serialised: both may
\* read before either writes, and the final content then holds the later
\* writer's patch only.
C25_LaterWriterWins ==
    (BothDone /\ frames[1].file_path = frames[2].file_path /\ BothReadFirst) =>
        files[frames[1].file_path]
            = Alone(result[frames[1].file_path], frames[LaterWriter].diff_content)

\* Both invocations read 'f' before either wrote it; the line the first
\* writer added is not in the file, and one invocation after the other
\* would have left both.
C25_Witness ==
    /\ BothDone
    /\ frames[1].file_path = "f"
    /\ frames[2].file_path = "f"
    /\ BothReadFirst
    /\ StepAt(1, "write") < StepAt(2, "write")
    /\ frames[1].diff_content # frames[2].diff_content
    /\ files["f"] = Alone(result["f"], frames[2].diff_content)
    /\ files["f"] # Alone(Alone(result["f"], frames[1].diff_content),
                          frames[2].diff_content)

\* The command matches one of the built-in dangerous patterns.
MatchesBuiltIn ==
    \E n \in 1..Len(DefaultPatterns) : ReSearch(DefaultPatterns[n], command)

\* C28: shell_executor starts no process for a command that matches one of
\* its built-in dangerous patterns, whatever dangerous_patterns argument
\* the caller passes.
C28_BuiltInPatternsAlwaysChecked ==
    MatchesBuiltIn => process = <<>>

\* The same for the calls that leave the argument out.
DefaultListRefuses ==
    (MatchesBuiltIn /\ dangerous_patterns.list = DefaultPatterns)
        => (process = <<>> /\ ~Did("checked"))

\* No process is started before the check against the list in force has
\* ended without a match.
CheckedBeforeStarted ==
    process # <<>> =>
        /\ Did("checked")
        /\ \A n \in 1..Len(dangerous_patterns.list) :
             ~ReSearch(dangerous_patterns.list[n], command)

\* The names of the directories on the way from the root to an absolute
\* path.
Components(p) == SelectSeq(SplitSlash(p, <<>>), LAMBDA c : c # <<>>)

\* p is dir itself or lies in the directory tree under dir.
InTree(p, dir) ==
    /\ Len(Components(dir)) <= Len(Components(p))
    /\ SubSeq(Components(p), 1, Len(Components(dir))) = Components(dir)

\* C29: is_safe_path returns True only if the absolute form of path is
\* base_dir itself or lies in the directory tree under base_dir; for a
\* path outside that tree, a sibling directory whose name extends
\* base_dir's name included, it returns False.
C29_TrueOnlyInsideBase ==
    (pc = "done" /\ result.value) => InTree(path, base_dir.dir)

\* A path that has base_dir and a slash in front of it is in the tree.
PrefixWithSlashIsInside ==
    (pc = "done" /\ StartsWith(path, base_dir.dir \o <<"/">>))
        => InTree(path, base_dir.dir)

\* A float between 0.0 and 1.0.
InUnit(value) == ~value.nan /\ 0 <= value.tenths /\ value.tenths <= 10

\* A call has ended.
AfterCall == Len(trail) = 2

\* The progress field is a dict with the keys it was built with, every
\* value between 0.0 and 1.0.
ProgressInBounds ==
    /\ progress.kind = "dict"
    /\ trail[1].progress.kind = "dict"
    /\ DOMAIN progress.items = DOMAIN trail[1].progress.items
    /\ \A stage \in DOMAIN progress.items : InUnit(progress.items[stage])

\* The call that has just ended was update_progress with a stage that is
\* not a key of progress.
UnknownStage ==
    /\ AfterCall
    /\ trail[2].op = "update_progress"
    /\ trail[2].progress.kind = "dict"
    /\ trail[2].stage \notin DOMAIN trail[2].progress.items

\* C30: after any sequence of update_progress and finalize_architecture
\* calls on an ArchitectAgentState, every call has ended normally, every
\* value in progress lies between 0.0 and 1.0 and the stage keys are the
\* ones the state was built with; an update_progress with an unknown stage
\* has changed neither progress nor last_updated_at.
C30_ProgressStaysClamped ==
    AfterCall =>
        /\ ~result.raised
        /\ ProgressInBounds
        /\ UnknownStage =>
               /\ progress = trail[2].progress
               /\ last_updated_at = trail[2].last_updated_at

\* On a state built with a dict of the six stages the claim's property
\* holds: the clamp of line 98 keeps every value, NaN and the infinite ones
\* included, between 0.0 and 1.0, and no key is added or removed.
SixStageDictStaysClamped ==
    (AfterCall /\ trail[1].progress = Mapping(DefaultProgress)) =>
        /\ ~result.raised
        /\ ProgressInBounds
        /\ UnknownStage =>
               /\ progress = trail[2].progress
               /\ last_updated_at = trail[2].last_updated_at

\* update_progress alone never changes the keys of a dict.
UpdateProgressKeepsKeys ==
    (AfterCall /\ trail[2].op = "update_progress" /\ progress.kind = "dict")
        => DOMAIN progress.items = DOMAIN trail[2].progress.items

====
